---- MODULE Spec2Model ----
(***************************************************************************)
(* The cron scheduler of the gateway: the service facade                   *)
(* (start/stop/status/list/add/update/remove/run), the store lock, the     *)
(* single wake timer and the per-job execution pipeline.                   *)
(*                                                                         *)
(* The facade operations are translated from the service source.  The     *)
(* helpers they import (jobs, locked, store, timer) are modelled from the  *)
(* design document, section 4.                                             *)
(*                                                                         *)
(* Time is in milliseconds.  The clock advances in steps of TickMs.        *)
(* An optional number (undefined in the source) is None.                   *)
(*                                                                         *)
(* Two smaller parts of the host application follow the scheduler: the     *)
(* token bucket and the circuit breaker of the web-search tool, and the    *)
(* interval pollers of the UI.                                             *)
(***************************************************************************)
EXTENDS Integers, Sequences, FiniteSets, Bags

VARIABLES
  now,          \* state.deps.nowMs()
  cronEnabled,  \* state.deps.cronEnabled
  loaded,       \* state.store is set
  store,        \* state.store.jobs: job id -> job record
  disk,         \* the persisted store
  timer,        \* state.timer: the handle of the last wake armed
  wakes,        \* wakes outstanding in the runtime (setTimeout not yet fired or cleared)
  running,      \* state.running, the scheduler-busy flag
  calls,        \* the invocations in progress, by slot
  ncalls,       \* the number of invocations made so far
  ret,          \* what the invocation that returned last returned
  queue,        \* invocations waiting for the store lock, oldest first
  inside,       \* invocations executing a locked section
  nextId,       \* the id createJob gives to the next job
  emitted,      \* the events emitted by the last step, in order
  timeouts,     \* timeout callbacks of run's race that are still scheduled
  fnArgs,       \* input of the pure function evaluated (the pure-function
                \* specifications only)
  fnOut         \* its output

\* The web-search tool.
VARIABLES
  wnow,                     \* Date.now() as the web-search module reads it
  availableTokens,          \* the token bucket
  lastRefillTime,
  circuitBreakerFailures,   \* the circuit breaker
  circuitBreakerOpenUntil,
  searches,                 \* the searches in progress (a bag)
  grants,                   \* the times at which checkRateLimit returned, in order
  waitedMs,                 \* what checkRateLimit returned last
  requests                  \* the number of provider requests issued by the last step

\* The UI pollers.
VARIABLES
  host,         \* the PollingHost: the four *PollInterval fields and tab
  intervals,    \* the interval timers of the window
  nextHandle,   \* the id the next setInterval returns
  called,       \* the loaders called by the last step
  uiOp          \* the last call on the host: [op, poller, active]

webVars == <<wnow, availableTokens, lastRefillTime, circuitBreakerFailures,
             circuitBreakerOpenUntil, searches, grants, waitedMs, requests>>

uiVars == <<host, intervals, nextHandle, called, uiOp>>

vars == <<now, cronEnabled, loaded, store, disk, timer, wakes, running,
          calls, ncalls, ret, queue, inside, nextId, emitted, timeouts,
          fnArgs, fnOut, webVars, uiVars>>

cronVars == <<now, cronEnabled, loaded, store, disk, timer, wakes, running,
              calls, ncalls, ret, queue, inside, nextId, emitted, timeouts>>

None == -1

\* ------------------------------------------------------------------ bounds
MaxTicks == 2
MaxCalls == 3
MaxInFlight == 2
MaxEvery == 3
MaxAnchor == 4
MaxNowFn == 6
MaxListJobs == 3
MaxNextRun == 2

TickMs == 20 * 60000
JobIds == {1, 2}
\* The job the callers address; the other job is a bystander.
Targets == {1}
EveryA == 2 * TickMs

\* ------------------------------------------------------- schedule evaluator
\* Variant: the last aligned time at or before nowMs.
computeJobNextRunAtMs_Floor(job, nowMs) ==
  IF nowMs < job.anchorMs
    THEN job.anchorMs
    ELSE job.anchorMs + ((nowMs - job.anchorMs) \div job.everyMs) * job.everyMs

\* The smallest anchorMs + k * everyMs (k >= 0) that is > nowMs.  A one-shot
\* job (no interval) has its time in anchorMs and no next run once it is past.
computeJobNextRunAtMs(job, nowMs) ==
  IF job.everyMs = None
    THEN (IF nowMs < job.anchorMs THEN job.anchorMs ELSE None)
  ELSE IF nowMs < job.anchorMs
    THEN job.anchorMs
    ELSE job.anchorMs + (((nowMs - job.anchorMs) \div job.everyMs) + 1) * job.everyMs

\* Variant: forced is ignored.
isJobDue_NoForce(job, nowMs, forced) ==
  job.nextRunAtMs # None /\ job.nextRunAtMs <= nowMs

\* forced, or the next run is at or before nowMs.
isJobDue(job, nowMs, forced) ==
  forced \/ (job.nextRunAtMs # None /\ job.nextRunAtMs <= nowMs)

\* Variant: the next run an enabled job already has is moved one interval on.
recomputeNextRuns_Advance(s, nowMs) ==
  [j \in DOMAIN s |->
     IF s[j].enabled
       THEN [s[j] EXCEPT !.nextRunAtMs =
               IF s[j].nextRunAtMs # None /\ s[j].everyMs # None
                 THEN s[j].nextRunAtMs + s[j].everyMs
                 ELSE computeJobNextRunAtMs(s[j], nowMs)]
       ELSE [s[j] EXCEPT !.nextRunAtMs = None]]

\* For every enabled job overwrite nextRunAtMs, for a disabled job clear it.
recomputeNextRuns(s, nowMs) ==
  [j \in DOMAIN s |->
     IF s[j].enabled
       THEN [s[j] EXCEPT !.nextRunAtMs = computeJobNextRunAtMs(s[j], nowMs)]
       ELSE [s[j] EXCEPT !.nextRunAtMs = None]]

WakeTimes(s) ==
  {s[j].nextRunAtMs : j \in {i \in DOMAIN s : s[i].enabled /\ s[i].nextRunAtMs # None}}

\* The minimum nextRunAtMs over the enabled jobs, None when there is none.
nextWakeAtMs(s) ==
  IF WakeTimes(s) = {} THEN None
  ELSE CHOOSE t \in WakeTimes(s) : \A u \in WakeTimes(s) : t <= u

\* ------------------------------------------------------------------- store
EmptyStore == [j \in {} |-> 0]

\* The store after ensureLoaded: read from disk on first use, recomputed
\* unless skipRecompute.
ensureLoaded(skipRecompute) ==
  IF loaded THEN store
  ELSE IF skipRecompute THEN disk
  ELSE recomputeNextRuns(disk, now)

\* ------------------------------------------------------------------- timer
\* replaced: the wake took the place of one that was still outstanding.
NoTimer == [at |-> None, live |-> FALSE, replaced |-> FALSE]

WakesAfterCancel == IF timer.live THEN wakes - 1 ELSE wakes

TimerFor(s) ==
  IF nextWakeAtMs(s) = None THEN NoTimer
  ELSE [at |-> nextWakeAtMs(s), live |-> TRUE, replaced |-> timer.live]

\* Variant: the outstanding wake is not cancelled.
armTimer_NoCancel(s) ==
  /\ timer' = TimerFor(s)
  /\ wakes' = wakes + (IF TimerFor(s).live THEN 1 ELSE 0)

\* Cancel the outstanding wake, then schedule one at nextWakeAtMs if any.
armTimer(s) ==
  /\ timer' = TimerFor(s)
  /\ wakes' = WakesAfterCancel + (IF TimerFor(s).live THEN 1 ELSE 0)

stopTimer ==
  /\ timer' = NoTimer
  /\ wakes' = WakesAfterCancel

\* ------------------------------------------------------------- invocations
NoPatch == [hasEnabled |-> FALSE, enabled |-> FALSE,
            hasSchedule |-> FALSE, everyMs |-> None, anchorMs |-> None]

\* The snapshot of a job held by an invocation: its fields, and the nested
\* objects (schedule, payload, state) it shares with the live job.
NoSnapshot == [set |-> FALSE, val |-> [enabled |-> FALSE], shared |-> {}]

NewCall(op, id, pc) ==
  [op |-> op, id |-> id, mode |-> "due", patch |-> NoPatch, pc |-> pc,
   res |-> "", due |-> <<>>, prev |-> FALSE, startedAt |-> None,
   status |-> "", endedAt |-> None, twin |-> 0,
   due0 |-> {}, caught |-> {}, timeoutMs |-> None, error |-> None,
   snapshot |-> NoSnapshot]

IdleCall == NewCall("idle", None, "idle")

Slots == 1 .. MaxInFlight
Active == {c \in Slots : calls[c].op # "idle"}
CanCall == ncalls < MaxCalls /\ Cardinality(Active) < MaxInFlight
NewSlot == CHOOSE c \in Slots \ Active : \A d \in Slots \ Active : c <= d

NoRet == [op |-> "", res |-> "", twin |-> 0, busy |-> FALSE]

\* emit(state, evt)
Event(jobId, action, status) ==
  [jobId |-> jobId, action |-> action, status |-> status,
   runAtMs |-> None, durationMs |-> None]

\* The started event of run: runAtMs is startedAt.
StartedEvent(jobId, startedAt) ==
  [Event(jobId, "started", "") EXCEPT !.runAtMs = startedAt]

\* The finished event of run: runAtMs is startedAt, durationMs is the job's
\* lastDurationMs after applyJobResult.
FinishedEvent(job, jobId, result) ==
  [Event(jobId, "finished", result.status) EXCEPT
     !.runAtMs = result.startedAt, !.durationMs = job.lastDurationMs]

\* A step that emits nothing and leaves the timeout callbacks alone.
Quiet == emitted' = <<>> /\ UNCHANGED timeouts

\* An invocation enters: it takes a slot and queues its first locked section.
Enter(call) ==
  /\ CanCall
  /\ calls' = [calls EXCEPT ![NewSlot] = call]
  /\ ncalls' = ncalls + 1
  /\ queue' = Append(queue, NewSlot)
  /\ Quiet
  /\ UNCHANGED ret

\* An invocation that returns at once.
Return(op, res) ==
  /\ CanCall
  /\ ncalls' = ncalls + 1
  /\ ret' = [op |-> op, res |-> res, twin |-> 0,
             busy |-> \E c \in Active : calls[c].pc = "exec"]
  /\ Quiet
  /\ UNCHANGED <<calls, queue>>

\* Invocation c goes on as nc; when nc is done it returns and frees its slot.
Settle(c, nc) ==
  /\ calls' = [calls EXCEPT ![c] = IF nc.pc = "done" THEN IdleCall ELSE nc]
  /\ ret' = IF nc.pc = "done"
              THEN [op |-> nc.op, res |-> nc.res, twin |-> nc.twin,
                    busy |-> \E d \in Active \ {c} : calls[d].pc = "exec"]
              ELSE ret
  /\ UNCHANGED ncalls

\* ---------------------------------------------------------------- the lock
\* Variant: a section starts without waiting for the one executing.
CanEnter_Overlap(c) == queue # <<>> /\ Head(queue) = c

\* locked(state, fn): fn starts when every section queued before it has ended.
CanEnter(c) == inside = {} /\ queue # <<>> /\ Head(queue) = c

Without(q, c) == SelectSeq(q, LAMBDA x : x # c)

LockedBegin(c) ==
  /\ CanEnter(c)
  /\ inside' = inside \cup {c}
  /\ queue' = Without(queue, c)
  /\ Quiet
  /\ UNCHANGED <<now, cronEnabled, loaded, store, disk, timer, wakes, running,
                 calls, ncalls, ret, nextId, fnArgs, fnOut, webVars, uiVars>>


\* -------------------------------------------------------------------- jobs
NewJob(enabled, everyMs, anchorMs, createdAtMs) ==
  [enabled |-> enabled, everyMs |-> everyMs, anchorMs |-> anchorMs,
   createdAtMs |-> createdAtMs, nextRunAtMs |-> None, runningAtMs |-> None,
   lastError |-> None, lastDurationMs |-> None, timeoutMs |-> None]

\* createJob: a missing anchor is the creation time; an enabled job gets its
\* next run.
createJob(input, nowMs) ==
  LET job == NewJob(input.enabled, input.everyMs,
                    IF input.anchorMs = None THEN nowMs ELSE input.anchorMs,
                    nowMs)
  IN IF job.enabled
       THEN [job EXCEPT !.nextRunAtMs = computeJobNextRunAtMs(job, nowMs)]
       ELSE job

applyJobPatch(job, patch) ==
  LET j1 == IF patch.hasEnabled THEN [job EXCEPT !.enabled = patch.enabled] ELSE job
  IN IF patch.hasSchedule
       THEN [j1 EXCEPT !.everyMs = patch.everyMs, !.anchorMs = patch.anchorMs]
       ELSE j1

IsOneShot(job) == job.everyMs = None

\* applyJobResult: the execution is over; its duration is recorded, and an
\* error is recorded in lastError.
applyJobResult(job, result) ==
  [job EXCEPT !.runningAtMs = None,
              !.lastDurationMs = result.endedAt - result.startedAt,
              !.lastError = IF result.status = "error" THEN result.error ELSE None]

\* What applyJobResult returns: a one-shot job that completed ok is deleted.
shouldDelete(job, result) == IsOneShot(job) /\ result.status = "ok"

findDueJobs(s, nowMs) ==
  {j \in DOMAIN s : isJobDue(s[j], nowMs, FALSE) /\ s[j].runningAtMs = None}

RECURSIVE SortedSeq(_)
SortedSeq(S) ==
  IF S = {} THEN <<>>
  ELSE LET m == CHOOSE x \in S : \A y \in S : x <= y
       IN <<m>> \o SortedSeq(S \ {m})

\* ------------------------------------------------- facade: pure fragments
\* Variant: only markers older than 30 minutes are cleared.
ClearAllRunning_StaleOnly(s) ==
  [j \in DOMAIN s |->
     IF s[j].runningAtMs # None /\ now - s[j].runningAtMs > 30 * 60000
       THEN [s[j] EXCEPT !.runningAtMs = None]
       ELSE s[j]]

\* start, phase 1: every numeric runningAtMs is cleared.
ClearAllRunning(s) ==
  [j \in DOMAIN s |-> [s[j] EXCEPT !.runningAtMs = None]]

STALE_THRESHOLD_MS == 30 * 60000

\* Variant: a marker of exactly the threshold age is cleared too.
clearStaleRunningMarkers_AtThreshold(s, nowMs) ==
  [j \in DOMAIN s |->
     IF s[j].runningAtMs # None /\ nowMs - s[j].runningAtMs >= STALE_THRESHOLD_MS
       THEN [s[j] EXCEPT !.runningAtMs = None]
       ELSE s[j]]

clearStaleRunningMarkers(s, nowMs) ==
  [j \in DOMAIN s |->
     IF s[j].runningAtMs # None /\ nowMs - s[j].runningAtMs > STALE_THRESHOLD_MS
       THEN [s[j] EXCEPT !.runningAtMs = None]
       ELSE s[j]]

\* Variant: the fallback is not clamped at 0.
BackfillAnchor_NoClamp(job, patch, nowMs) ==
  IF IsOneShot(job) \/ job.anchorMs # None THEN job
  ELSE LET fallbackAnchorMs ==
             IF patch.hasSchedule THEN nowMs
             ELSE IF job.createdAtMs # None THEN job.createdAtMs
             ELSE nowMs
       IN [job EXCEPT !.anchorMs = fallbackAnchorMs]

\* update: the anchor of an interval schedule is made a number.
BackfillAnchor(job, patch, nowMs) ==
  IF IsOneShot(job) \/ job.anchorMs # None THEN job
  ELSE LET fallbackAnchorMs ==
             IF patch.hasSchedule THEN nowMs
             ELSE IF job.createdAtMs # None THEN job.createdAtMs
             ELSE nowMs
       IN [job EXCEPT !.anchorMs = IF fallbackAnchorMs < 0 THEN 0 ELSE fallbackAnchorMs]

\* Variant: enabling leaves nextRunAtMs as it is.
UpdateRunState_NoRecompute(job, patch, nowMs) ==
  IF patch.hasSchedule \/ patch.hasEnabled
    THEN IF job.enabled
           THEN job
           ELSE [job EXCEPT !.nextRunAtMs = None, !.runningAtMs = None]
    ELSE job

\* Variant: disabling leaves nextRunAtMs as it is.
UpdateRunState_KeepNext(job, patch, nowMs) ==
  IF patch.hasSchedule \/ patch.hasEnabled
    THEN IF job.enabled
           THEN [job EXCEPT !.nextRunAtMs = computeJobNextRunAtMs(job, nowMs)]
           ELSE [job EXCEPT !.runningAtMs = None]
    ELSE job

\* update: a changed schedule or enabled flag recomputes or clears the run state.
UpdateRunState(job, patch, nowMs) ==
  IF patch.hasSchedule \/ patch.hasEnabled
    THEN IF job.enabled
           THEN [job EXCEPT !.nextRunAtMs = computeJobNextRunAtMs(job, nowMs)]
           ELSE [job EXCEPT !.nextRunAtMs = None, !.runningAtMs = None]
    ELSE job

\* Variant: a copy of the top level only ({...job}); the nested objects are
\* those of the live job.
structuredClone_Shallow(job) ==
  [set |-> TRUE, val |-> job, shared |-> {"schedule", "payload", "state"}]

\* structuredClone(job): no object of the copy is an object of the live job.
structuredClone(job) == [set |-> TRUE, val |-> job, shared |-> {}]

\* The nested object of CronJob a field of the job record belongs to.
FieldGroup(f) ==
  CASE f \in {"everyMs", "anchorMs"} -> "schedule"
    [] f = "timeoutMs" -> "payload"
    [] f \in {"nextRunAtMs", "runningAtMs", "lastError", "lastDurationMs"} -> "state"
    [] OTHER -> "job"

\* The job the holder of the snapshot reads: a field of a shared object is
\* the live job's.
SnapshotView(call, s) ==
  [f \in DOMAIN call.snapshot.val |->
     IF FieldGroup(f) \in call.snapshot.shared /\ call.id \in DOMAIN s
       THEN s[call.id][f]
       ELSE call.snapshot.val[f]]

\* Variant: the job is not marked running.
PreflightMark_NoMarker(job, nowMs) ==
  [job EXCEPT !.lastError = None]

\* run, preflight: the job is marked running and its last error is cleared.
PreflightMark(job, nowMs) ==
  [job EXCEPT !.runningAtMs = nowMs, !.lastError = None]

\* ------------------------------------------------- the course of a call
NeedsLock(call) ==
  call.pc \in {"phase1", "scan", "preflight", "apply", "phase3", "body"}

\* What an invocation does once one pipeline (or the due-job scan) is over:
\* run returns; onTimer takes the next due job, and after the last one start
\* goes on to its phase 3.
Advance(call) ==
  IF call.op = "run" THEN [call EXCEPT !.pc = "done"]
  ELSE IF call.due # <<>>
    THEN [call EXCEPT !.pc = "preflight", !.id = Head(call.due),
                      !.due = Tail(call.due)]
  ELSE IF call.op = "start" THEN [call EXCEPT !.pc = "phase3"]
  ELSE [call EXCEPT !.pc = "done"]

TimerDone(call) == call.op = "timer" /\ call.pc = "done"

Requeue(c, call) == IF NeedsLock(call) THEN Append(queue, c) ELSE queue

\* The enabled jobs whose next run is already in the past.
Overdue(s) ==
  {j \in DOMAIN s : s[j].enabled /\ s[j].nextRunAtMs # None /\ s[j].nextRunAtMs < now}

\* The store as an operation that loads without recompute finds it.
Cur == IF loaded THEN store ELSE disk

\* The default execution timeout of run.
JobTimeoutMs == 10 * 60000

\* Variant: the payload's timeoutSeconds is ignored.
jobTimeoutMs_DefaultOnly(job) == JobTimeoutMs

\* The timeout budget of run: the payload's timeoutSeconds * 1000 for an
\* agentTurn payload that has one, else the default.
jobTimeoutMs(job) ==
  IF job.timeoutMs # None THEN job.timeoutMs ELSE JobTimeoutMs

\* coreResult.error: String(err) of the executor's error and of the timeout's.
ErrExecutor == 1
ErrTimedOut == 2

InExec(c) == calls[c].pc = "exec"

\* ------------------------------------------------------------------- start
\* Variant: start loads the store before it tests cronEnabled.
StartDisabled_Loads ==
  /\ ~cronEnabled
  /\ Return("start", "disabled")
  /\ loaded' = TRUE
  /\ store' = ensureLoaded(TRUE)
  /\ UNCHANGED <<now, cronEnabled, disk, timer, wakes, running,
                 inside, nextId, fnArgs, fnOut, webVars, uiVars>>

\* start with cron disabled: a log line, nothing else.
StartDisabled ==
  /\ ~cronEnabled
  /\ Return("start", "disabled")
  /\ UNCHANGED <<now, cronEnabled, loaded, store, disk, timer, wakes, running,
                 inside, nextId, fnArgs, fnOut, webVars, uiVars>>

StartCall ==
  /\ cronEnabled
  /\ Enter(NewCall("start", None, "phase1"))
  /\ UNCHANGED <<now, cronEnabled, loaded, store, disk, timer, wakes, running,
                 inside, nextId, fnArgs, fnOut, webVars, uiVars>>

\* Phase 1: load without recompute, clear every running marker, persist if
\* one was cleared; then onTimer is entered.
StartPhase1End(c) ==
  /\ c \in inside
  /\ calls[c].op = "start"
  /\ calls[c].pc = "phase1"
  /\ LET s0 == ensureLoaded(TRUE)
         s1 == ClearAllRunning(s0)
     IN /\ store' = s1
        /\ loaded' = TRUE
        /\ disk' = IF s1 # s0 THEN s1 ELSE disk
  /\ inside' = inside \ {c}
  /\ Settle(c, [calls[c] EXCEPT !.pc = "scan",
                                !.due0 = Overdue(ensureLoaded(TRUE))])
  /\ queue' = Append(queue, c)
  /\ Quiet
  /\ UNCHANGED <<now, cronEnabled, timer, wakes, running, nextId, fnArgs, fnOut, webVars, uiVars>>

\* Phase 3: recompute, persist if changed, arm the timer.
StartPhase3End(c) ==
  /\ c \in inside
  /\ calls[c].op = "start"
  /\ calls[c].pc = "phase3"
  /\ LET s0 == ensureLoaded(TRUE)
         s1 == recomputeNextRuns(s0, now)
     IN /\ store' = s1
        /\ loaded' = TRUE
        /\ disk' = IF s1 # s0 THEN s1 ELSE disk
        /\ armTimer(s1)
  /\ inside' = inside \ {c}
  /\ Settle(c, [calls[c] EXCEPT !.pc = "done", !.res = "ok"])
  /\ Quiet
  /\ UNCHANGED <<now, cronEnabled, running, queue, nextId, fnArgs, fnOut, webVars, uiVars>>

\* ----------------------------------------------------------------- onTimer
TimerFire ==
  /\ timer.live
  /\ timer.at <= now
  /\ timer' = NoTimer
  /\ wakes' = wakes - 1
  /\ Enter(NewCall("timer", None, "scan"))
  /\ UNCHANGED <<now, cronEnabled, loaded, store, disk, running, inside, nextId,
                 fnArgs, fnOut, webVars, uiVars>>

\* The due-job scan: the due jobs that are not running, each then taken
\* through the run pipeline outside this section.
OnTimerScanEnd(c) ==
  /\ c \in inside
  /\ calls[c].pc = "scan"
  /\ LET s0 == ensureLoaded(TRUE)
         nc == Advance([calls[c] EXCEPT !.due = SortedSeq(findDueJobs(s0, now))])
     IN /\ store' = s0
        /\ loaded' = TRUE
        /\ Settle(c, nc)
        /\ queue' = Requeue(c, nc)
        /\ IF TimerDone(nc) THEN armTimer(s0) ELSE UNCHANGED <<timer, wakes>>
  /\ inside' = inside \ {c}
  /\ Quiet
  /\ UNCHANGED <<now, cronEnabled, disk, running, nextId, fnArgs, fnOut, webVars, uiVars>>


\* --------------------------------------------------------------------- run
RunCall(id, mode) ==
  /\ Enter([NewCall("run", id, "preflight") EXCEPT !.mode = mode])
  /\ UNCHANGED <<now, cronEnabled, loaded, store, disk, timer, wakes, running,
                 inside, nextId, fnArgs, fnOut, webVars, uiVars>>

\* Two run(id) calls made in the same turn, as in Promise.all([run(id), run(id)]).
RunTwice(id) ==
  /\ ncalls + 2 <= MaxCalls
  /\ Cardinality(Active) + 2 <= MaxInFlight
  /\ LET c1 == NewSlot
         c2 == CHOOSE c \in Slots \ (Active \cup {c1}) :
                 \A d \in Slots \ (Active \cup {c1}) : c <= d
     IN /\ calls' = [calls EXCEPT
                       ![c1] = [NewCall("run", id, "preflight") EXCEPT !.twin = c2],
                       ![c2] = [NewCall("run", id, "preflight") EXCEPT !.twin = c1]]
        /\ queue' = queue \o <<c1, c2>>
  /\ ncalls' = ncalls + 2
  /\ Quiet
  /\ UNCHANGED ret
  /\ UNCHANGED <<now, cronEnabled, loaded, store, disk, timer, wakes, running,
                 inside, nextId, fnArgs, fnOut, webVars, uiVars>>

\* Variant: the executor is awaited inside the preflight section.
RunPreflightEnd_KeepLock(c) ==
  /\ c \in inside
  /\ calls[c].pc = "preflight"
  /\ calls[c].id \in DOMAIN ensureLoaded(TRUE)
  /\ ensureLoaded(TRUE)[calls[c].id].runningAtMs = None
  /\ isJobDue(ensureLoaded(TRUE)[calls[c].id], now, calls[c].mode = "force")
  /\ store' = [ensureLoaded(TRUE) EXCEPT
                 ![calls[c].id] = PreflightMark(ensureLoaded(TRUE)[calls[c].id], now)]
  /\ loaded' = TRUE
  /\ running' = TRUE
  /\ emitted' = <<StartedEvent(calls[c].id, now)>>
  /\ timeouts' = timeouts + 1
  /\ Settle(c, [calls[c] EXCEPT !.pc = "exec", !.startedAt = now,
                                !.prev = running,
                                !.timeoutMs =
                                   jobTimeoutMs(ensureLoaded(TRUE)[calls[c].id]),
                                !.snapshot =
                                   structuredClone(PreflightMark(
                                     ensureLoaded(TRUE)[calls[c].id], now))])
  /\ UNCHANGED <<now, cronEnabled, disk, timer, wakes, queue, inside, nextId,
                 fnArgs, fnOut, webVars, uiVars>>

\* Variant: the job is marked running before due-ness is tested, so a run that
\* answers not-due leaves the marker behind.
RunPreflightEnd_MarkFirst(c) ==
  /\ c \in inside
  /\ calls[c].pc = "preflight"
  /\ LET s0 == ensureLoaded(TRUE)
         id == calls[c].id
         abort(reason) == Advance([calls[c] EXCEPT !.res = reason])
         reason == IF id \notin DOMAIN s0 THEN "not-found"
                   ELSE IF s0[id].runningAtMs # None THEN "already-running"
                   ELSE IF ~isJobDue(s0[id], now, calls[c].mode = "force") THEN "not-due"
                   ELSE ""
     IN /\ loaded' = TRUE
        /\ IF reason # ""
             THEN /\ store' = IF reason = "not-due"
                                THEN [s0 EXCEPT ![id] = PreflightMark(s0[id], now)]
                                ELSE s0
                  /\ Settle(c, abort(reason))
                  /\ queue' = Requeue(c, abort(reason))
                  /\ IF TimerDone(abort(reason)) THEN armTimer(s0)
                                                 ELSE UNCHANGED <<timer, wakes>>
                  /\ Quiet
                  /\ UNCHANGED running
             ELSE /\ store' = [s0 EXCEPT ![id] = PreflightMark(s0[id], now)]
                  /\ emitted' = <<StartedEvent(id, now)>>
                  /\ timeouts' = timeouts + 1
                  /\ Settle(c, [calls[c] EXCEPT
                                  !.pc = "exec", !.res = "", !.startedAt = now,
                                  !.prev = running,
                                  !.timeoutMs = jobTimeoutMs(s0[id]),
                                  !.snapshot =
                                     structuredClone(PreflightMark(s0[id], now)),
                                  !.caught = IF calls[c].op = "start"
                                               THEN calls[c].caught \cup {id}
                                               ELSE {}])
                  /\ running' = TRUE
                  /\ UNCHANGED <<queue, timer, wakes>>
  /\ inside' = inside \ {c}
  /\ UNCHANGED <<now, cronEnabled, disk, nextId, fnArgs, fnOut, webVars, uiVars>>

\* The preflight section of run, and what follows it up to the executor call:
\* not-found, already-running and not-due end the pipeline; otherwise the job
\* is marked, the section ends and the busy flag is saved and set.
RunPreflightEnd(c) ==
  /\ c \in inside
  /\ calls[c].pc = "preflight"
  /\ LET s0 == ensureLoaded(TRUE)
         id == calls[c].id
         abort(reason) == Advance([calls[c] EXCEPT !.res = reason])
         reason == IF id \notin DOMAIN s0 THEN "not-found"
                   ELSE IF s0[id].runningAtMs # None THEN "already-running"
                   ELSE IF ~isJobDue(s0[id], now, calls[c].mode = "force") THEN "not-due"
                   ELSE ""
     IN /\ loaded' = TRUE
        /\ IF reason # ""
             THEN /\ store' = s0
                  /\ Settle(c, abort(reason))
                  /\ queue' = Requeue(c, abort(reason))
                  /\ IF TimerDone(abort(reason)) THEN armTimer(s0)
                                                 ELSE UNCHANGED <<timer, wakes>>
                  /\ Quiet
                  /\ UNCHANGED running
             ELSE /\ store' = [s0 EXCEPT ![id] = PreflightMark(s0[id], now)]
                  /\ emitted' = <<StartedEvent(id, now)>>
                  /\ timeouts' = timeouts + 1
                  /\ Settle(c, [calls[c] EXCEPT
                                  !.pc = "exec", !.res = "", !.startedAt = now,
                                  !.prev = running,
                                  !.timeoutMs = jobTimeoutMs(s0[id]),
                                  !.snapshot =
                                     structuredClone(PreflightMark(s0[id], now)),
                                  !.caught = IF calls[c].op = "start"
                                               THEN calls[c].caught \cup {id}
                                               ELSE {}])
                  /\ running' = TRUE
                  /\ UNCHANGED <<queue, timer, wakes>>
  /\ inside' = inside \ {c}
  /\ UNCHANGED <<now, cronEnabled, disk, nextId, fnArgs, fnOut, webVars, uiVars>>

\* Variant: an executor error is not caught; run rejects with it, the busy flag
\* is restored by the finally block and no result section follows.
ExecDone_Throw(c, status) ==
  /\ calls[c].pc = "exec"
  /\ IF status = "error"
       THEN /\ Settle(c, [calls[c] EXCEPT !.pc = "done", !.res = "threw"])
            /\ running' = calls[c].prev
            /\ UNCHANGED queue
       ELSE /\ Settle(c, [calls[c] EXCEPT
                            !.pc = "apply", !.status = status, !.endedAt = now,
                  !.snapshot = NoSnapshot,
                            !.error = None])
            /\ queue' = Append(queue, c)
            /\ UNCHANGED running
  /\ emitted' = <<>>
  /\ timeouts' = timeouts - 1
  /\ UNCHANGED <<now, cronEnabled, loaded, store, disk, timer, wakes,
                 inside, nextId, fnArgs, fnOut, webVars, uiVars>>

\* Variant: the timeout callback is not cancelled when the executor settles.
ExecDone_NoClear(c, status) ==
  /\ calls[c].pc = "exec"
  /\ Settle(c, [calls[c] EXCEPT
                  !.pc = "apply", !.status = status, !.endedAt = now,
                  !.snapshot = NoSnapshot,
                  !.error = IF status = "error" THEN ErrExecutor ELSE None])
  /\ queue' = Append(queue, c)
  /\ emitted' = <<>>
  /\ UNCHANGED timeouts
  /\ UNCHANGED <<now, cronEnabled, loaded, store, disk, timer, wakes, running,
                 inside, nextId, fnArgs, fnOut, webVars, uiVars>>

\* The executor settles, with a result or with an error that is caught: the
\* timeout callback is cancelled, endedAt is read and the result section is
\* queued.
ExecDone(c, status) ==
  /\ calls[c].pc = "exec"
  /\ Settle(c, [calls[c] EXCEPT
                  !.pc = "apply", !.status = status, !.endedAt = now,
                  !.snapshot = NoSnapshot,
                  !.error = IF status = "error" THEN ErrExecutor ELSE None])
  /\ queue' = Append(queue, c)
  /\ emitted' = <<>>
  /\ timeouts' = timeouts - 1
  /\ UNCHANGED <<now, cronEnabled, loaded, store, disk, timer, wakes, running,
                 inside, nextId, fnArgs, fnOut, webVars, uiVars>>

\* The timeout wins the race: the budget has elapsed and the executor has not
\* settled; the result is an error and the executor is awaited no longer.
Timeout(c) ==
  /\ calls[c].pc = "exec"
  /\ now - calls[c].startedAt >= calls[c].timeoutMs
  /\ Settle(c, [calls[c] EXCEPT
                  !.pc = "apply", !.status = "error", !.endedAt = now,
                  !.snapshot = NoSnapshot,
                  !.error = ErrTimedOut])
  /\ queue' = Append(queue, c)
  /\ emitted' = <<>>
  /\ timeouts' = timeouts - 1
  /\ UNCHANGED <<now, cronEnabled, loaded, store, disk, timer, wakes, running,
                 inside, nextId, fnArgs, fnOut, webVars, uiVars>>

\* What the executor may write into the snapshot it was handed: a field and
\* its new value.
Writes ==
  { <<"enabled", FALSE>>, <<"everyMs", TickMs>>,
    <<"timeoutMs", JobTimeoutMs>>, <<"lastError", ErrExecutor>> }

\* The executor writes a field of its snapshot; the write reaches the live job
\* if the object written is shared with it.
ExecWrites(c, w) ==
  /\ calls[c].pc = "exec"
  /\ SnapshotView(calls[c], store)[w[1]] # w[2]
  /\ calls' = [calls EXCEPT ![c].snapshot.val[w[1]] = w[2]]
  /\ store' = IF FieldGroup(w[1]) \in calls[c].snapshot.shared
                  /\ calls[c].id \in DOMAIN store
                THEN [store EXCEPT ![calls[c].id][w[1]] = w[2]]
                ELSE store
  /\ Quiet
  /\ UNCHANGED <<now, cronEnabled, loaded, disk, timer, wakes, running, ncalls,
                 ret, queue, inside, nextId, fnArgs, fnOut, webVars, uiVars>>

\* Variant: endedAt is read inside the result section.
ResultOf_EndedInside(call) ==
  [status |-> call.status, error |-> call.error,
   startedAt |-> call.startedAt, endedAt |-> now]

\* coreResult with startedAt and endedAt, as handed to applyJobResult.
ResultOf(call) ==
  [status |-> call.status, error |-> call.error,
   startedAt |-> call.startedAt, endedAt |-> call.endedAt]

\* Variant: a one-shot job that completed ok stays in the store.
ResultStore_NoDelete(s0, id, result, nowMs) ==
  recomputeNextRuns([s0 EXCEPT ![id] = applyJobResult(s0[id], result)], nowMs)

\* The store after the result section when the job is still there: the result
\* is applied, the job is dropped if applyJobResult says so, next runs are
\* recomputed.
ResultStore(s0, id, result, nowMs) ==
  LET applied == [s0 EXCEPT ![id] = applyJobResult(s0[id], result)]
      kept == IF shouldDelete(s0[id], result)
                THEN [j \in DOMAIN applied \ {id} |-> applied[j]]
                ELSE applied
  IN recomputeNextRuns(kept, nowMs)

\* The events of the result section when the job is still there.
ResultEvents(s0, id, result) ==
  <<FinishedEvent(applyJobResult(s0[id], result), id, result)>> \o
  (IF shouldDelete(s0[id], result) THEN <<Event(id, "removed", "")>> ELSE <<>>)

\* Variant: the result section recomputes although the job is gone.
ResultWhenGone_Recompute(s0) == recomputeNextRuns(s0, now)

\* The store after the result section when the job is gone: as it was.
ResultWhenGone(s0) == s0

\* The result section: nothing if the job is gone, else apply the result,
\* recompute, persist and arm; then the busy flag is restored.
RunResultEnd(c) ==
  /\ c \in inside
  /\ calls[c].pc = "apply"
  /\ LET s0 == ensureLoaded(TRUE)
         id == calls[c].id
         present == id \in DOMAIN s0
         s1 == IF present THEN ResultStore(s0, id, ResultOf(calls[c]), now)
                          ELSE ResultWhenGone(s0)
         nc == Advance([calls[c] EXCEPT !.res = "ran"])
     IN /\ store' = s1
        /\ loaded' = TRUE
        /\ disk' = IF present THEN s1 ELSE disk
        /\ emitted' = IF present THEN ResultEvents(s0, id, ResultOf(calls[c]))
                                 ELSE <<>>
        /\ UNCHANGED timeouts
        /\ IF present \/ TimerDone(nc) THEN armTimer(s1)
                                       ELSE UNCHANGED <<timer, wakes>>
        /\ Settle(c, nc)
        /\ queue' = Requeue(c, nc)
  /\ running' = calls[c].prev
  /\ inside' = inside \ {c}
  /\ UNCHANGED <<now, cronEnabled, nextId, fnArgs, fnOut, webVars, uiVars>>

\* ------------------------------------------------------------- status, list
StatusCall ==
  /\ Enter(NewCall("status", None, "body"))
  /\ UNCHANGED <<now, cronEnabled, loaded, store, disk, timer, wakes, running,
                 inside, nextId, fnArgs, fnOut, webVars, uiVars>>

ListCall ==
  /\ Enter(NewCall("list", None, "body"))
  /\ UNCHANGED <<now, cronEnabled, loaded, store, disk, timer, wakes, running,
                 inside, nextId, fnArgs, fnOut, webVars, uiVars>>

\* status and list: load without recompute, clear stale markers (persist if
\* any), recompute (persist if changed).
StatusEnd(c) ==
  /\ c \in inside
  /\ calls[c].op \in {"status", "list"}
  /\ calls[c].pc = "body"
  /\ LET s0 == ensureLoaded(TRUE)
         s1 == clearStaleRunningMarkers(s0, now)
         s2 == recomputeNextRuns(s1, now)
     IN /\ store' = s2
        /\ loaded' = TRUE
        /\ disk' = IF s2 # s1 THEN s2 ELSE IF s1 # s0 THEN s1 ELSE disk
  /\ inside' = inside \ {c}
  /\ Settle(c, [calls[c] EXCEPT !.pc = "done", !.res = "ok"])
  /\ Quiet
  /\ UNCHANGED <<now, cronEnabled, timer, wakes, running, queue, nextId,
                 fnArgs, fnOut, webVars, uiVars>>

\* --------------------------------------------------------------------- add
AddInputs ==
  {[NoPatch EXCEPT !.enabled = e, !.everyMs = EveryA] : e \in BOOLEAN}

PendingAdds == Cardinality({c \in Slots : calls[c].op = "add"})

AddCall(input) ==
  /\ nextId + PendingAdds \in JobIds
  /\ Enter([NewCall("add", None, "body") EXCEPT !.patch = input])
  /\ UNCHANGED <<now, cronEnabled, loaded, store, disk, timer, wakes, running,
                 inside, nextId, fnArgs, fnOut, webVars, uiVars>>

AddEnd(c) ==
  /\ c \in inside
  /\ calls[c].op = "add"
  /\ calls[c].pc = "body"
  /\ LET s0 == ensureLoaded(FALSE)
         job == createJob(calls[c].patch, now)
         s1 == [j \in DOMAIN s0 \cup {nextId} |-> IF j = nextId THEN job ELSE s0[j]]
         s2 == recomputeNextRuns(s1, now)
     IN /\ store' = s2
        /\ loaded' = TRUE
        /\ disk' = s2
        /\ armTimer(s2)
  /\ nextId' = nextId + 1
  /\ inside' = inside \ {c}
  /\ Settle(c, [calls[c] EXCEPT !.pc = "done", !.res = "ok", !.id = nextId])
  /\ emitted' = <<Event(nextId, "added", "")>>
  /\ UNCHANGED timeouts
  /\ UNCHANGED <<now, cronEnabled, running, queue, fnArgs, fnOut, webVars, uiVars>>

\* ------------------------------------------------------------------ update
Patches ==
  { [NoPatch EXCEPT !.hasEnabled = TRUE, !.enabled = FALSE],
    [NoPatch EXCEPT !.hasEnabled = TRUE, !.enabled = TRUE],
    [NoPatch EXCEPT !.hasSchedule = TRUE, !.everyMs = TickMs],
    NoPatch }

UpdateCall(id, patch) ==
  /\ Enter([NewCall("update", id, "body") EXCEPT !.patch = patch])
  /\ UNCHANGED <<now, cronEnabled, loaded, store, disk, timer, wakes, running,
                 inside, nextId, fnArgs, fnOut, webVars, uiVars>>

UpdateEnd(c) ==
  /\ c \in inside
  /\ calls[c].op = "update"
  /\ calls[c].pc = "body"
  /\ LET s0 == ensureLoaded(FALSE)
         id == calls[c].id
         patch == calls[c].patch
         job == UpdateRunState(
                  BackfillAnchor(applyJobPatch(s0[id], patch), patch, now), patch, now)
         s1 == [s0 EXCEPT ![id] = job]
     IN /\ loaded' = TRUE
        /\ IF id \notin DOMAIN s0
             THEN /\ store' = s0
                  /\ Settle(c, [calls[c] EXCEPT !.pc = "done", !.res = "not-found"])
                  /\ emitted' = <<>>
                  /\ UNCHANGED <<disk, timer, wakes>>
             ELSE /\ store' = s1
                  /\ disk' = s1
                  /\ armTimer(s1)
                  /\ Settle(c, [calls[c] EXCEPT !.pc = "done", !.res = "ok"])
                  /\ emitted' = <<Event(id, "updated", "")>>
  /\ UNCHANGED timeouts
  /\ inside' = inside \ {c}
  /\ UNCHANGED <<now, cronEnabled, running, queue, nextId, fnArgs, fnOut, webVars, uiVars>>

\* ------------------------------------------------------------------ remove
RemoveCall(id) ==
  /\ Enter(NewCall("remove", id, "body"))
  /\ UNCHANGED <<now, cronEnabled, loaded, store, disk, timer, wakes, running,
                 inside, nextId, fnArgs, fnOut, webVars, uiVars>>

\* Variant: remove answers removed and emits the event but keeps the job.
RemoveEnd_Keep(c) ==
  /\ c \in inside
  /\ calls[c].op = "remove"
  /\ calls[c].pc = "body"
  /\ LET s0 == ensureLoaded(FALSE)
     IN /\ store' = s0
        /\ loaded' = TRUE
        /\ disk' = s0
        /\ armTimer(s0)
        /\ Settle(c, [calls[c] EXCEPT
                        !.pc = "done",
                        !.res = IF calls[c].id \in DOMAIN s0 THEN "removed" ELSE "absent"])
        /\ emitted' = IF calls[c].id \in DOMAIN s0
                         THEN <<Event(calls[c].id, "removed", "")>> ELSE <<>>
  /\ UNCHANGED timeouts
  /\ inside' = inside \ {c}
  /\ UNCHANGED <<now, cronEnabled, running, queue, nextId, fnArgs, fnOut, webVars, uiVars>>

\* The locked body of remove: the job is filtered out, the store is persisted
\* and the timer armed whether or not a job was removed; the removed event is
\* emitted only if one was.
RemoveEnd(c) ==
  /\ c \in inside
  /\ calls[c].op = "remove"
  /\ calls[c].pc = "body"
  /\ LET s0 == ensureLoaded(FALSE)
         s1 == [j \in DOMAIN s0 \ {calls[c].id} |-> s0[j]]
     IN /\ store' = s1
        /\ loaded' = TRUE
        /\ disk' = s1
        /\ armTimer(s1)
        /\ Settle(c, [calls[c] EXCEPT
                        !.pc = "done", !.res = IF s1 # s0 THEN "removed" ELSE "absent"])
        /\ emitted' = IF s1 # s0 THEN <<Event(calls[c].id, "removed", "")>> ELSE <<>>
  /\ UNCHANGED timeouts
  /\ inside' = inside \ {c}
  /\ UNCHANGED <<now, cronEnabled, running, queue, nextId, fnArgs, fnOut, webVars, uiVars>>

\* -------------------------------------------------------------- stop, clock
\* Variant: stop also discards the loaded store.
Stop_Discard ==
  /\ stopTimer
  /\ Return("stop", "ok")
  /\ loaded' = FALSE
  /\ store' = EmptyStore
  /\ UNCHANGED <<now, cronEnabled, disk, running,
                 inside, nextId, fnArgs, fnOut, webVars, uiVars>>

\* stop: stopTimer, nothing else.
Stop ==
  /\ stopTimer
  /\ Return("stop", "ok")
  /\ UNCHANGED <<now, cronEnabled, loaded, store, disk, running,
                 inside, nextId, fnArgs, fnOut, webVars, uiVars>>

Tick ==
  /\ now < MaxTicks * TickMs
  /\ \A c \in Active : InExec(c) => now - calls[c].startedAt < calls[c].timeoutMs
  /\ now' = now + TickMs
  /\ Quiet
  /\ UNCHANGED <<cronEnabled, loaded, store, disk, timer, wakes, running, calls,
                 ncalls, ret, queue, inside, nextId, fnArgs, fnOut, webVars, uiVars>>

\* ------------------------------------------- web search and UI at rest
TOKEN_REFILL_INTERVAL_MS == 1000
MAX_TOKENS == 10
CIRCUIT_BREAKER_FAILURE_THRESHOLD == 5
CIRCUIT_BREAKER_TIMEOUT_MS == 60000

\* The web-search module as loaded at clock 0: a full bucket, a closed circuit.
WebInit ==
  /\ wnow = 0
  /\ availableTokens = MAX_TOKENS
  /\ lastRefillTime = 0
  /\ circuitBreakerFailures = 0
  /\ circuitBreakerOpenUntil = 0
  /\ searches = EmptyBag
  /\ grants = <<>>
  /\ waitedMs = None
  /\ requests = 0

Pollers == {"nodes", "logs", "debug", "mission-control"}

\* The host before any poller was started.
UiInit ==
  /\ host = [nodesPollInterval |-> None, logsPollInterval |-> None,
             debugPollInterval |-> None, missionControlPollInterval |-> None,
             tab |-> "chat"]
  /\ intervals = {}
  /\ nextHandle = 1
  /\ called = <<>>
  /\ uiOp = [op |-> "none", poller |-> "none", active |-> FALSE]

\* ------------------------------------------------------------ specification
\* Job 1 is next due after one tick, job 2 after two.
JobA == createJob([NoPatch EXCEPT !.enabled = TRUE, !.everyMs = EveryA, !.anchorMs = TickMs], 0)
JobB == createJob([NoPatch EXCEPT !.enabled = TRUE, !.everyMs = EveryA, !.anchorMs = 0], 0)

Disk1 == [j \in {1} |-> JobA]
Disk2 == [j \in {1, 2} |-> IF j = 1 THEN JobA ELSE JobB]

\* The process starts on a store persisted by an earlier, cleanly stopped one.
InitConfigs ==
  { [enabled |-> TRUE, disk |-> Disk1],
    [enabled |-> TRUE, disk |-> Disk2],
    [enabled |-> FALSE, disk |-> Disk1] }

NoArgs == [everyMs |-> None, anchorMs |-> None, nowMs |-> None]

Init ==
  /\ now = 0
  /\ \E cfg \in InitConfigs : cronEnabled = cfg.enabled /\ disk = cfg.disk
  /\ loaded = FALSE
  /\ store = EmptyStore
  /\ timer = NoTimer
  /\ wakes = 0
  /\ running = FALSE
  /\ calls = [c \in Slots |-> IdleCall]
  /\ ncalls = 0
  /\ ret = NoRet
  /\ queue = <<>>
  /\ inside = {}
  /\ nextId = Cardinality(DOMAIN disk) + 1
  /\ emitted = <<>>
  /\ timeouts = 0
  /\ fnArgs = NoArgs
  /\ fnOut = None
  /\ WebInit
  /\ UiInit

Next ==
  \/ StartDisabled
  \/ StartCall
  \/ StatusCall
  \/ ListCall
  \/ \E input \in AddInputs : AddCall(input)
  \/ \E id \in Targets, patch \in Patches : UpdateCall(id, patch)
  \/ \E id \in Targets : RemoveCall(id)
  \/ \E id \in Targets, mode \in {"due", "force"} : RunCall(id, mode)
  \/ \E id \in Targets : RunTwice(id)
  \/ Stop
  \/ Tick
  \/ TimerFire
  \/ \E c \in Slots :
       \/ LockedBegin(c)
       \/ StartPhase1End(c)
       \/ OnTimerScanEnd(c)
       \/ StartPhase3End(c)
       \/ RunPreflightEnd(c)
       \/ \E status \in {"ok", "error"} : ExecDone(c, status)
       \/ Timeout(c)
       \/ RunResultEnd(c)
       \/ StatusEnd(c)
       \/ AddEnd(c)
       \/ UpdateEnd(c)
       \/ RemoveEnd(c)

Spec == Init /\ [][Next]_vars

\* ------------------------------------------------------------------ claims
\* Invocations that have passed a preflight for job j and have not yet applied
\* its result.
InFlight(j) ==
  {c \in Active : calls[c].id = j /\ calls[c].pc \in {"exec", "apply"}}

\* run() invocations in the unlocked execution phase for job j.
RunsInExec(j) ==
  {c \in Active : calls[c].op = "run" /\ calls[c].id = j /\ InExec(c)}

\* C1: for every job, at most one run() invocation is in the unlocked
\* execution phase, whatever run, update, status, list, start, add and remove
\* calls are interleaved around it.
C1_OneExecutionPerJob ==
  \A j \in JobIds : Cardinality(RunsInExec(j)) <= 1

\* The two invocations of a concurrent pair.
Twins(c, d) ==
  /\ c \in Active /\ d \in Active /\ c # d
  /\ calls[c].twin = d /\ calls[d].twin = c

Executing(c) == calls[c].pc \in {"exec", "apply"}

\* C2: of two run(id) calls made concurrently on the same job, never both are
\* past preflight; the first one reaches the execution phase when the job is
\* due and idle, and the other one then returns already-running.
C2_TwinsNeverBoth ==
  \A c, d \in Slots : Twins(c, d) => ~(Executing(c) /\ Executing(d))

C2_FirstRuns ==
  \A c, d \in Slots :
    ( /\ Twins(c, d)
      /\ calls[c].pc = "preflight" /\ calls[d].pc = "preflight"
      /\ c \in inside /\ c \notin inside'
      /\ calls[c].id \in DOMAIN Cur
      /\ Cur[calls[c].id].runningAtMs = None
      /\ isJobDue(Cur[calls[c].id], now, FALSE) )
    => calls'[c].pc = "exec"

C2_OtherReturns ==
  \A c, d \in Slots :
    ( /\ Twins(c, d)
      /\ Executing(c)
      /\ calls[d].pc = "preflight"
      /\ d \in inside /\ d \notin inside' )
    => /\ calls'[d] = IdleCall
       /\ ret'.op = "run"
       /\ ret'.res = "already-running"

C2_ConcurrentRunOnce ==
  /\ [] C2_TwinsNeverBoth
  /\ [][C2_FirstRuns /\ C2_OtherReturns]_vars

\* One of the pair is executing and the other has returned already-running.
C2_Witness ==
  /\ ret.op = "run"
  /\ ret.res = "already-running"
  /\ ret.twin \in Slots
  /\ calls[ret.twin].op = "run"
  /\ calls[ret.twin].twin # 0
  /\ InExec(ret.twin)

\* C3: whenever the lock is not held, a job's runningAtMs is a number if and
\* only if an invocation has passed preflight for that job and has not yet
\* applied its result.
C3_MarkerIffInFlight ==
  (inside = {} /\ loaded) =>
    \A j \in DOMAIN store : (store[j].runningAtMs # None) <=> (InFlight(j) # {})

\* ------------------------------------------------------- restart scenario
\* start() is called on its own; status() and list() are the only other
\* callers, and no wake fires.
StartAlone ==
  /\ \A c \in Active : calls[c].op # "start"
  /\ StartCall

NextRestart ==
  \/ StartAlone
  \/ StatusCall
  \/ ListCall
  \/ Tick
  \/ \E c \in Slots :
       \/ LockedBegin(c)
       \/ StartPhase1End(c)
       \/ OnTimerScanEnd(c)
       \/ StartPhase3End(c)
       \/ RunPreflightEnd(c)
       \/ \E status \in {"ok", "error"} : ExecDone(c, status)
       \/ Timeout(c)
       \/ RunResultEnd(c)
       \/ StatusEnd(c)

SpecRestart == Init /\ [][NextRestart]_vars

\* C4: every enabled job whose nextRunAtMs was in the past when start()
\* loaded the store (phase 1) has been executed by start's catch-up when start
\* reaches its phase 3 (the recompute), also when status() or list() calls are
\* interleaved between the phases.
C4_CatchUpBeforeRecompute ==
  \A c \in Active :
    (calls[c].op = "start" /\ calls[c].pc = "phase3")
      => calls[c].due0 \subseteq calls[c].caught

\* A locked section of invocation c ends in this step.
SectionEnds(c) == c \in inside /\ c \notin inside'

\* C5: a status, list or add section, or the result section of a run of
\* another job, leaves every overdue job that has not been run due: its
\* nextRunAtMs is not moved into the future.
C5_Step ==
  \A c \in Slots :
    ( /\ SectionEnds(c)
      /\ \/ calls[c].op \in {"status", "list", "add"}
         \/ calls[c].pc = "apply" )
    => \A j \in Overdue(Cur) :
         ( /\ Cur[j].runningAtMs = None
           /\ InFlight(j) = {}
           /\ ~(calls[c].pc = "apply" /\ calls[c].id = j) )
         => /\ j \in DOMAIN store'
            /\ store'[j].nextRunAtMs # None
            /\ store'[j].nextRunAtMs <= now

C5_DueJobNotMoved == [][C5_Step]_vars

\* C6: at most one locked section is executing at any time, and a section
\* starts only when it is the oldest one waiting (FIFO).
C6_OneInside == Cardinality(inside) <= 1

C6_HeadEnters ==
  \A c \in inside' \ inside : queue # <<>> /\ c = Head(queue)

C6_LockedSerialFifo == [] C6_OneInside /\ [][C6_HeadEnters]_vars

\* A section is executing while another one waits.
C6_Witness == inside # {} /\ queue # <<>>

\* C7: an invocation whose executor call is pending (the execution phase of
\* run, or of start's catch-up) neither holds the lock nor waits for it.
C7_LockFreeDuringExec ==
  \A c \in Active :
    InExec(c) => c \notin inside /\ \A i \in DOMAIN queue : queue[i] # c

\* start's catch-up is executing a job and a status() or list() call has
\* returned meanwhile.
C7_Witness ==
  /\ ret.op \in {"status", "list"}
  /\ ret.busy
  /\ \E c \in Active : calls[c].op = "start" /\ InExec(c)

\* C8: at most one wake is outstanding, and it is the one state.timer holds.
C8_OneWake == wakes <= 1 /\ wakes >= 0 /\ (timer.live <=> wakes = 1)

\* armTimer has replaced a wake that was still outstanding.
C8_Witness == wakes = 1 /\ timer.live /\ timer.replaced

MaxK == MaxNowFn + 2

FnInputs ==
  {[everyMs |-> e, anchorMs |-> a, nowMs |-> n] :
     e \in 1 .. MaxEvery, a \in 0 .. MaxAnchor, n \in 0 .. MaxNowFn}
  \cup {[everyMs |-> 60000, anchorMs |-> 0, nowMs |-> 150000]}

Evaluate(args) ==
  /\ fnArgs' = args
  /\ fnOut' = computeJobNextRunAtMs(args, args.nowMs)
  /\ UNCHANGED <<cronVars, webVars, uiVars>>

InitNextRun ==
  /\ Init
  /\ cronEnabled
  /\ disk = Disk1

NextNextRun == \E args \in FnInputs : Evaluate(args)

SpecNextRun == InitNextRun /\ [][NextNextRun]_vars

Aligned(args) == {args.anchorMs + k * args.everyMs : k \in 0 .. MaxK}

\* C10: the result is anchorMs + k * everyMs for some k >= 0, is not before
\* now, and no aligned time lies strictly between now and it; anchor 0,
\* interval 60000 and now 150000 give 180000.
C10_NextRunAligned ==
  fnArgs # NoArgs =>
    /\ fnOut \in Aligned(fnArgs)
    /\ fnOut >= fnArgs.nowMs
    /\ \A t \in Aligned(fnArgs) : ~(fnArgs.nowMs < t /\ t < fnOut)
    /\ (fnArgs = [everyMs |-> 60000, anchorMs |-> 0, nowMs |-> 150000]
          => fnOut = 180000)

\* The evaluator has been applied with the anchor before now and now off the
\* grid.
C10_Witness ==
  /\ fnArgs # NoArgs
  /\ fnArgs.anchorMs < fnArgs.nowMs
  /\ (fnArgs.nowMs - fnArgs.anchorMs) % fnArgs.everyMs # 0
  /\ fnOut > fnArgs.nowMs

\* ------------------------------------------------------ recovery scenario
\* The process starts on a store left by a process that crashed while job 1
\* was running, or on a store whose job 1 has a timeout of its own or is a
\* one-shot job.  The callers are start, status, list and run.
JobLong == [JobA EXCEPT !.timeoutMs = 60 * 60000]
JobMid == [JobA EXCEPT !.timeoutMs = 40 * 60000]
JobOnce ==
  createJob([NoPatch EXCEPT !.enabled = TRUE, !.everyMs = None, !.anchorMs = TickMs], 0)

RecoverConfigs ==
  { [now |-> 0, disk |-> [j \in {1} |-> [JobA EXCEPT !.runningAtMs = 0]]],
    [now |-> TickMs, disk |-> [j \in {1} |-> [JobA EXCEPT !.runningAtMs = TickMs \div 2]]],
    [now |-> 0, disk |-> [j \in {1} |-> JobLong]],
    [now |-> 0, disk |-> [j \in {1} |-> JobMid]],
    [now |-> 0, disk |-> [j \in {1} |-> JobOnce]] }

InitRecover ==
  /\ \E cfg \in RecoverConfigs : now = cfg.now /\ disk = cfg.disk
  /\ cronEnabled = TRUE
  /\ loaded = FALSE
  /\ store = EmptyStore
  /\ timer = NoTimer
  /\ wakes = 0
  /\ running = FALSE
  /\ calls = [c \in Slots |-> IdleCall]
  /\ ncalls = 0
  /\ ret = NoRet
  /\ queue = <<>>
  /\ inside = {}
  /\ nextId = 2
  /\ emitted = <<>>
  /\ timeouts = 0
  /\ fnArgs = NoArgs
  /\ fnOut = None
  /\ WebInit
  /\ UiInit

NextRecover ==
  \/ NextRestart
  \/ \E id \in Targets, mode \in {"due", "force"} : RunCall(id, mode)

SpecRecover == InitRecover /\ [][NextRecover]_vars

\* The job is an interval job with no timeout of its own: in the recovery
\* scenario, the job of a store left by a crash.
Plain(job) == ~IsOneShot(job) /\ job.timeoutMs = None

Marked(s) == {j \in DOMAIN s : s[j].runningAtMs # None}

\* C11: start's phase 1 clears every numeric runningAtMs whatever its age and
\* persists the store if and only if a marker was cleared; while start goes
\* on, a job is marked only by an execution in flight.
C11_Phase1Step ==
  \A c \in Slots :
    (SectionEnds(c) /\ calls[c].op = "start" /\ calls[c].pc = "phase1")
    => /\ Marked(store') = {}
       /\ disk' = IF Marked(Cur) # {} THEN store' ELSE disk

C11_NoLeftover ==
  \A c \in Active :
    (calls[c].op = "start" /\ calls[c].pc # "phase1")
    => \A j \in Marked(store) : InFlight(j) # {}

C11_StartClearsMarkers == [] C11_NoLeftover /\ [][C11_Phase1Step]_vars

\* start, the only call made, is past phase 1 on a store left by a crash, and
\* the cleared marker has been persisted.
C11_Witness ==
  /\ ncalls = 1
  /\ \E c \in Active : calls[c].op = "start" /\ calls[c].pc = "scan"
  /\ disk = Disk1

\* C12: the locked body of status and list clears every marker older than 30
\* minutes and leaves the other markers as they are; run on a job without a
\* marker does not answer already-running.
C12_ReadStep ==
  \A c \in Slots :
    (SectionEnds(c) /\ calls[c].op \in {"status", "list"})
    => \A j \in DOMAIN Cur :
         /\ j \in DOMAIN store'
         /\ (j \in Marked(Cur) /\ now - Cur[j].runningAtMs > STALE_THRESHOLD_MS)
              => store'[j].runningAtMs = None
         /\ (j \in Marked(Cur) /\ now - Cur[j].runningAtMs <= STALE_THRESHOLD_MS)
              => store'[j].runningAtMs = Cur[j].runningAtMs

C12_RunAgain ==
  \A c \in Slots :
    ( /\ SectionEnds(c)
      /\ calls[c].op = "run" /\ calls[c].pc = "preflight"
      /\ calls[c].id \in DOMAIN Cur
      /\ calls[c].id \notin Marked(Cur) )
    => \/ calls'[c].pc = "exec"
       \/ (calls'[c] = IdleCall /\ ret'.res = "not-due")

C12_StaleMarkerCleared == [][C12_ReadStep /\ C12_RunAgain]_vars

\* On a store left by a crash, status or list has returned and run, the only
\* other call, is executing the job.
C12_Witness ==
  /\ ncalls = 2
  /\ ret.op \in {"status", "list"}
  /\ \E c \in Active :
       /\ calls[c].op = "run" /\ InExec(c)
       /\ Plain(store[calls[c].id])

\* C13: status and list never clear the runningAtMs marker of a job whose
\* execution is in flight and within its timeout budget.
C13_Step ==
  \A c \in Slots :
    (SectionEnds(c) /\ calls[c].op \in {"status", "list"})
    => \A d \in Active :
         ( /\ InExec(d)
           /\ now - calls[d].startedAt < calls[d].timeoutMs
           /\ calls[d].id \in Marked(Cur) )
         => store'[calls[d].id].runningAtMs = Cur[calls[d].id].runningAtMs

C13_InFlightMarkerKept == [][C13_Step]_vars

\* C14: an execution that ends, however it ends, is followed by the result
\* section; the result section of an execution that ended in an error makes
\* run return ran, records the error in lastError of the job if it is still
\* there, emits finished with status error and leaves the job unmarked, so
\* that a later run can execute it.
C14_Caught ==
  \A c \in Slots :
    (calls[c].pc = "exec" /\ calls'[c] # calls[c]) => calls'[c].pc = "apply"

C14_Applied ==
  \A c \in Slots :
    (SectionEnds(c) /\ calls[c].pc = "apply" /\ calls[c].status = "error")
    => /\ calls[c].op = "run"
            => /\ calls'[c] = IdleCall
               /\ ret'.op = "run" /\ ret'.res = "ran"
       /\ calls[c].id \in DOMAIN Cur
            => /\ calls[c].id \in DOMAIN store'
               /\ store'[calls[c].id].lastError = calls[c].error
               /\ store'[calls[c].id].runningAtMs = None
               /\ Len(emitted') = 1
               /\ emitted'[1].jobId = calls[c].id
               /\ emitted'[1].action = "finished"
               /\ emitted'[1].status = "error"

C15_Budget(job) == IF job.timeoutMs # None THEN job.timeoutMs ELSE 10 * 60000

\* C15: the timeout ends an execution only when the budget of the job has
\* elapsed; the result is then the error "timed out", its section is queued in
\* the same step, and applying it records that error on the job and emits
\* finished with status error.
C15_TimeoutStep ==
  \A c \in Slots :
    (calls[c].pc = "exec" /\ calls'[c].pc = "apply" /\ calls'[c].error = ErrTimedOut)
    => /\ calls'[c].status = "error"
       /\ calls[c].id \in DOMAIN Cur
            => now - calls[c].startedAt >= C15_Budget(Cur[calls[c].id])
       /\ queue' = Append(queue, c)

C15_TimeoutApplied ==
  \A c \in Slots :
    ( /\ SectionEnds(c) /\ calls[c].pc = "apply"
      /\ calls[c].error = ErrTimedOut
      /\ calls[c].id \in DOMAIN Cur )
    => /\ store'[calls[c].id].lastError = ErrTimedOut
       /\ Len(emitted') = 1
       /\ emitted'[1].jobId = calls[c].id
       /\ emitted'[1].action = "finished"
       /\ emitted'[1].status = "error"

\* An execution in flight has not outlived its budget by a whole clock step.
C15_Expired ==
  \A c \in Active :
    (InExec(c) /\ calls[c].id \in DOMAIN Cur)
    => now - calls[c].startedAt < C15_Budget(Cur[calls[c].id]) + TickMs

C16_NoPendingTimeout ==
  timeouts = Cardinality({c \in Active : InExec(c)})

\* The only call made, a run, executed and returned; no callback is pending.
C16_Witness ==
  /\ ncalls = 1
  /\ Active = {}
  /\ ret.op = "run" /\ ret.res = "ran"
  /\ timeouts = 0

\* C17: the result section of a one-shot job that completed ok leaves the job
\* neither in the store nor in the persisted store; the result section of an
\* enabled interval job that ended in error keeps the job, with lastError set
\* and with the first slot of its schedule after the current time as
\* nextRunAtMs.
C17_Step ==
  \A c \in Slots :
    (SectionEnds(c) /\ calls[c].pc = "apply" /\ calls[c].id \in DOMAIN Cur)
    => LET id == calls[c].id
       IN /\ (IsOneShot(Cur[id]) /\ calls[c].status = "ok")
               => (id \notin DOMAIN store' /\ id \notin DOMAIN disk')
          /\ (~IsOneShot(Cur[id]) /\ Cur[id].enabled /\ calls[c].status = "error")
               => /\ id \in DOMAIN store'
                  /\ store'[id].lastError = calls[c].error
                  /\ store'[id].lastError # None
                  /\ store'[id].nextRunAtMs > now
                  /\ store'[id].nextRunAtMs - now <= store'[id].everyMs
                  /\ (store'[id].nextRunAtMs - store'[id].anchorMs)
                       % store'[id].everyMs = 0
                  /\ disk' = store'

C17_OneShotGoneRecurringKept == [][C17_Step]_vars

\* A run of the one-shot job has returned ran and the job is gone from the
\* store and from the persisted store.
C17_Witness ==
  /\ ret.op = "run" /\ ret.res = "ran"
  /\ loaded
  /\ 1 \notin DOMAIN store
  /\ 1 \notin DOMAIN disk

\* C18: the result section of an execution whose job is gone changes neither
\* the store nor the persisted store, emits nothing and does not bring the job
\* back; run returns ran.
C18_Step ==
  \A c \in Slots :
    (SectionEnds(c) /\ calls[c].pc = "apply" /\ calls[c].id \notin DOMAIN Cur)
    => /\ store' = Cur
       /\ disk' = disk
       /\ emitted' = <<>>
       /\ calls[c].op = "run"
            => /\ calls'[c] = IdleCall
               /\ ret'.op = "run" /\ ret'.res = "ran"

C18_ResultOfRemovedJob == [][C18_Step]_vars

\* Two calls were made, both have returned, run last and with ran, and the
\* job is gone: it was removed while run was executing it.
C18_Witness ==
  /\ ncalls = 2
  /\ Active = {}
  /\ ret.op = "run" /\ ret.res = "ran"
  /\ loaded
  /\ 1 \notin DOMAIN store

\* C19: when remove returns the job is in neither the store nor the persisted
\* store; a job that is gone stays gone; an execution starts only for a job
\* that is in the store, and run on a job that is gone answers not-found.
C19_Removed ==
  \A c \in Slots :
    (SectionEnds(c) /\ calls[c].op = "remove")
    => (calls[c].id \notin DOMAIN store' /\ calls[c].id \notin DOMAIN disk')

C19_StaysGone ==
  \A j \in Targets :
    (loaded /\ j \notin DOMAIN store) => j \notin DOMAIN store'

C19_NoNewExecution ==
  \A c \in Slots :
    /\ (calls[c].pc = "preflight" /\ calls'[c].pc = "exec")
         => calls[c].id \in DOMAIN Cur
    /\ ( /\ SectionEnds(c)
         /\ calls[c].op = "run" /\ calls[c].pc = "preflight"
         /\ calls[c].id \notin DOMAIN Cur )
         => (calls'[c] = IdleCall /\ ret'.res = "not-found")

C19_RemovedJobNeverRuns ==
  [][C19_Removed /\ C19_StaysGone /\ C19_NoNewExecution]_vars

\* remove and then run were called on the job; run answered not-found.
C19_Witness ==
  /\ ncalls = 2
  /\ Active = {}
  /\ ret.op = "run" /\ ret.res = "not-found"
  /\ loaded
  /\ 1 \notin DOMAIN store

\* C20: the locked body of update, remove or run for an id that is not in the
\* loaded store answers not-found and leaves the job list, the persisted
\* store and the timer as they were, and emits nothing.
C20_Step ==
  \A c \in Slots :
    ( /\ SectionEnds(c)
      /\ calls[c].op \in {"update", "remove", "run"}
      /\ calls[c].pc \in {"body", "preflight"}
      /\ loaded
      /\ calls[c].id \notin DOMAIN store )
    => /\ ret'.res = "not-found"
       /\ store' = store
       /\ disk' = disk
       /\ timer'.at = timer.at /\ timer'.live = timer.live
       /\ wakes' = wakes
       /\ emitted' = <<>>

C20_MissingIdChangesNothing == [][C20_Step]_vars

\* C21: a run that answers already-running or not-due returns that tagged
\* value and leaves the jobs, the persisted store, the timer and the busy flag
\* as they were; it emits nothing and schedules no timeout, the executor not
\* being called.
C21_Step ==
  \A c \in Slots :
    ( /\ SectionEnds(c)
      /\ calls[c].op = "run" /\ calls[c].pc = "preflight"
      /\ calls'[c] = IdleCall
      /\ ret'.res \in {"already-running", "not-due"} )
    => /\ ret'.op = "run"
       /\ store' = Cur
       /\ disk' = disk
       /\ timer' = timer /\ wakes' = wakes
       /\ running' = running
       /\ timeouts' = timeouts
       /\ emitted' = <<>>
       /\ \A d \in Slots \ {c} : calls'[d] = calls[d]

C21_AbortChangesNothing == [][C21_Step]_vars

\* The only call made, a run that was not forced, answered not-due.
C21_Witness ==
  /\ ncalls = 1
  /\ Active = {}
  /\ ret.op = "run" /\ ret.res = "not-due"
  /\ loaded /\ store = disk

\* ------------------------------------------------------ the result of list
\* Variant: a job without nextRunAtMs sorts after every other job.
SortKey_Last(job) ==
  IF job.nextRunAtMs = None THEN MaxNextRun + 1 ELSE job.nextRunAtMs

\* a.state.nextRunAtMs ?? 0
SortKey(job) == IF job.nextRunAtMs = None THEN 0 ELSE job.nextRunAtMs

\* job is put before the first element the comparator orders after it.
RECURSIVE InsertByKey(_, _)
InsertByKey(sorted, job) ==
  IF sorted = <<>> THEN <<job>>
  ELSE IF SortKey(job) - SortKey(Head(sorted)) < 0 THEN <<job>> \o sorted
  ELSE <<Head(sorted)>> \o InsertByKey(Tail(sorted), job)

\* Array.prototype.toSorted with the comparator of list: a stable sort into a
\* new array.
RECURSIVE toSorted(_)
toSorted(jobs) ==
  IF jobs = <<>> THEN <<>>
  ELSE InsertByKey(toSorted(SubSeq(jobs, 1, Len(jobs) - 1)), jobs[Len(jobs)])

IsListed(job, includeDisabled) == includeDisabled \/ job.enabled

\* What list returns for the stored jobs, given in stored order.
listJobs(jobs, includeDisabled) ==
  toSorted(SelectSeq(jobs, LAMBDA job : IsListed(job, includeDisabled)))

\* Stored jobs: the id is the position in the store.
ListJobsOfLen(n) ==
  {jobs \in [1 .. n -> [id : 1 .. n, enabled : BOOLEAN,
                        nextRunAtMs : {None} \cup (0 .. MaxNextRun)]] :
     \A i \in 1 .. n : jobs[i].id = i}

ListInputs ==
  {[jobs |-> jobs, includeDisabled |-> b] :
     jobs \in UNION {ListJobsOfLen(n) : n \in 0 .. MaxListJobs}, b \in BOOLEAN}

\* list is applied, once; filter and toSorted make new arrays, the stored
\* array is the one it was.
EvaluateList(args) ==
  /\ fnArgs = NoArgs
  /\ fnArgs' = args
  /\ fnOut' = listJobs(args.jobs, args.includeDisabled)
  /\ UNCHANGED <<cronVars, webVars, uiVars>>

NextList == \E args \in ListInputs : EvaluateList(args)

SpecList == InitNextRun /\ [][NextList]_vars

Listed == {i \in 1 .. Len(fnArgs.jobs) :
             fnArgs.includeDisabled \/ fnArgs.jobs[i].enabled}

C22_Key(job) == IF job.nextRunAtMs = None THEN 0 ELSE job.nextRunAtMs

\* C22: the result of list holds each stored job that is enabled (each stored
\* job with includeDisabled) once and no other, in ascending order of
\* nextRunAtMs with a missing nextRunAtMs counted as 0, so that a job without
\* a next run is before every job whose next run is after 0.
C22_ListFilteredSorted ==
  fnArgs # NoArgs =>
    /\ Len(fnOut) = Cardinality(Listed)
    /\ {fnOut[i].id : i \in 1 .. Len(fnOut)} = Listed
    /\ \A i \in 1 .. Len(fnOut) : fnOut[i] = fnArgs.jobs[fnOut[i].id]
    /\ \A i, j \in 1 .. Len(fnOut) :
         i < j => C22_Key(fnOut[i]) <= C22_Key(fnOut[j])
    /\ \A i, j \in 1 .. Len(fnOut) :
         (fnOut[i].nextRunAtMs = None /\ fnOut[j].nextRunAtMs # None
            /\ fnOut[j].nextRunAtMs > 0) => i < j

\* Three jobs are stored, one is disabled and left out, and the job without a
\* next run, stored last, is returned first.
C22_Witness ==
  /\ fnArgs # NoArgs
  /\ ~fnArgs.includeDisabled
  /\ Len(fnArgs.jobs) = 3
  /\ Len(fnOut) = 2
  /\ fnOut[1].id = 3 /\ fnOut[1].nextRunAtMs = None
  /\ fnOut[2].id = 1 /\ fnOut[2].nextRunAtMs = MaxNextRun

\* ------------------------------------------------- the executor's snapshot
\* run and update are called on job 1 and the executor writes into the
\* snapshot it was handed.
InitSnapshot == Init /\ cronEnabled

NextSnapshot ==
  \/ \E id \in Targets, mode \in {"due", "force"} : RunCall(id, mode)
  \/ \E id \in Targets, patch \in Patches : UpdateCall(id, patch)
  \/ \E c \in Slots :
       \/ LockedBegin(c)
       \/ RunPreflightEnd(c)
       \/ \E w \in Writes : ExecWrites(c, w)
       \/ \E status \in {"ok", "error"} : ExecDone(c, status)
       \/ RunResultEnd(c)
       \/ UpdateEnd(c)

SpecSnapshot == InitSnapshot /\ [][NextSnapshot]_vars

\* The execution of c goes on over the step.
StillInExec(c) == calls[c].pc = "exec" /\ calls'[c].pc = "exec"

\* C23: the snapshot taken by the preflight is the job as marked; a write of
\* the executor into its snapshot changes neither the jobs nor the persisted
\* store; a step that changes the jobs does not change what the executor reads
\* in its snapshot.
C23_Step ==
  \A c \in Slots :
    /\ (calls[c].pc = "preflight" /\ calls'[c].pc = "exec")
         => /\ calls'[c].snapshot.set
            /\ SnapshotView(calls'[c], store') = store'[calls[c].id]
    /\ (StillInExec(c) /\ calls'[c].snapshot # calls[c].snapshot)
         => (store' = store /\ disk' = disk)
    /\ (StillInExec(c) /\ calls'[c].snapshot = calls[c].snapshot)
         => SnapshotView(calls'[c], store') = SnapshotView(calls[c], store)

C23_SnapshotIndependent == [][C23_Step]_vars

\* The executor has written lastError into its snapshot and update has
\* disabled the live job since: the job has no lastError and the snapshot is
\* still enabled.
C23_Witness ==
  /\ ret.op = "update" /\ ret.res = "ok"
  /\ \E c \in Active :
       /\ InExec(c)
       /\ calls[c].id \in DOMAIN store
       /\ calls[c].snapshot.val.lastError = ErrExecutor
       /\ store[calls[c].id].lastError = None
       /\ calls[c].snapshot.val.enabled
       /\ ~store[calls[c].id].enabled

\* ------------------------------------------------------ disable, re-enable
DisablePatch == [NoPatch EXCEPT !.hasEnabled = TRUE, !.enabled = FALSE]
EnablePatch == [NoPatch EXCEPT !.hasEnabled = TRUE, !.enabled = TRUE]

Disable(id) == UpdateCall(id, DisablePatch)

\* update(id, {enabled: true}) is called on a job that is disabled, no other
\* call being in progress.
Reenable(id) ==
  /\ Active = {}
  /\ loaded
  /\ id \in DOMAIN store
  /\ ~store[id].enabled
  /\ UpdateCall(id, EnablePatch)

NextToggle ==
  \/ \E id \in Targets : Disable(id)
  \/ \E id \in Targets : Reenable(id)
  \/ StatusCall
  \/ Tick
  \/ \E c \in Slots :
       \/ LockedBegin(c)
       \/ UpdateEnd(c)
       \/ StatusEnd(c)

SpecToggle == InitSnapshot /\ [][NextToggle]_vars

\* C24: update with enabled false leaves the job without nextRunAtMs; update
\* with enabled true on a disabled job leaves its interval and anchor as they
\* were and gives it the first slot of that schedule after now; interval and
\* anchor are throughout what they were before the first disable.
C24_Step ==
  \A c \in Slots :
    ( /\ SectionEnds(c)
      /\ calls[c].op = "update"
      /\ calls[c].id \in DOMAIN Cur )
    => LET id == calls[c].id
           job == store'[id]
       IN /\ calls[c].patch = DisablePatch
               => (~job.enabled /\ job.nextRunAtMs = None)
          /\ (calls[c].patch = EnablePatch /\ ~Cur[id].enabled)
               => /\ job.enabled
                  /\ job.everyMs = Cur[id].everyMs
                  /\ job.anchorMs = Cur[id].anchorMs
                  /\ job.nextRunAtMs > now
                  /\ job.nextRunAtMs >= job.anchorMs
                  /\ (job.nextRunAtMs - job.anchorMs) % job.everyMs = 0
                  /\ (job.nextRunAtMs = job.anchorMs
                        \/ job.nextRunAtMs - job.everyMs <= now)

C24_ScheduleKept ==
  loaded => \A id \in Targets :
              /\ store[id].everyMs = JobA.everyMs
              /\ store[id].anchorMs = JobA.anchorMs

C24_DisableEnable == [] C24_ScheduleKept /\ [][C24_Step]_vars

\* The job was disabled and, the clock having advanced, enabled again: it has
\* a next run after now.
C24_Witness ==
  /\ Active = {}
  /\ ret.op = "update" /\ ret.res = "ok"
  /\ now > 0
  /\ store[1].enabled
  /\ store[1].nextRunAtMs > now

\* C25: the locked section of add, update or remove, for a job that is there,
\* leaves every job with its next run recomputed, the persisted store equal
\* to the store, the wake at the earliest next run and exactly one event, the
\* one of the operation.
C25_Step ==
  \A c \in Slots :
    ( /\ SectionEnds(c)
      /\ calls[c].op \in {"add", "update", "remove"}
      /\ calls[c].op # "add" => calls[c].id \in DOMAIN Cur )
    => /\ store' = recomputeNextRuns(store', now)
       /\ disk' = store'
       /\ timer'.at = nextWakeAtMs(store')
       /\ Len(emitted') = 1
       /\ emitted'[1].action =
            (CASE calls[c].op = "add" -> "added"
               [] calls[c].op = "update" -> "updated"
               [] OTHER -> "removed")

C25_MutationsRecomputeAll == [][C25_Step]_vars

\* An operation that takes no lock has returned op in this step.
Returned(op) == ncalls' = ncalls + 1 /\ calls' = calls /\ ret'.op = op

\* C26: start with cron disabled returns without loading the store, changing
\* a job, persisting, arming a wake or queueing anything; no start is ever in
\* progress while cron is disabled.
C26_Step ==
  (Returned("start") /\ ~cronEnabled)
  => /\ UNCHANGED <<loaded, store, disk, timer, wakes, running, queue, inside,
                    timeouts>>
     /\ emitted' = <<>>

C26_NoStartInProgress ==
  ~cronEnabled => \A c \in Active : calls[c].op # "start"

C26_DisabledStartNoOp == [] C26_NoStartInProgress /\ [][C26_Step]_vars

\* start, the only call made, has returned with cron disabled; the store is
\* not loaded and no wake is armed.
C26_Witness ==
  /\ ~cronEnabled
  /\ ncalls = 1
  /\ ret.op = "start"
  /\ ~loaded
  /\ ~timer.live /\ wakes = 0

\* C27: stop leaves no wake outstanding, cancelling the one there is, and
\* leaves the loaded store, the persisted store, the busy flag and the lock
\* queue as they are; with no wake outstanding it changes nothing.
C27_Step ==
  Returned("stop")
  => /\ UNCHANGED <<loaded, store, disk, running, queue, inside, timeouts>>
     /\ ~timer'.live
     /\ wakes' = IF timer.live THEN wakes - 1 ELSE wakes
     /\ ~timer.live => (timer' = timer /\ wakes' = wakes)

C27_StopCancelsOnly == [][C27_Step]_vars

\* stop has returned after another call loaded the store: the jobs are there,
\* one of them enabled with a next run, and no wake is outstanding.
C27_Witness ==
  /\ ret.op = "stop"
  /\ Active = {}
  /\ loaded
  /\ cronEnabled
  /\ \E j \in DOMAIN store : store[j].enabled /\ store[j].nextRunAtMs # None
  /\ ~timer.live /\ wakes = 0

\* ------------------------------------------------ the anchor backfill alone
\* An interval job whose anchor is a number or missing, created at a time
\* that is a number (one of them negative) or missing; a patch without a
\* schedule, or with an interval schedule with or without an anchor.
BackfillInputs ==
  {[job |-> [NewJob(TRUE, EveryA, a, cr) EXCEPT !.nextRunAtMs = EveryA],
    patch |-> patch, nowMs |-> n] :
     a \in {None} \cup (0 .. MaxAnchor),
     cr \in {None, -3} \cup (0 .. MaxAnchor),
     patch \in {NoPatch,
                [NoPatch EXCEPT !.hasSchedule = TRUE, !.everyMs = TickMs],
                [NoPatch EXCEPT !.hasSchedule = TRUE, !.everyMs = TickMs,
                                !.anchorMs = MaxAnchor]},
     n \in 0 .. MaxNowFn}

\* The patch is applied and the anchor backfilled, as update does; once.
EvaluateBackfill(args) ==
  /\ fnArgs = NoArgs
  /\ fnArgs' = args
  /\ fnOut' = BackfillAnchor(applyJobPatch(args.job, args.patch), args.patch,
                             args.nowMs)
  /\ UNCHANGED <<cronVars, webVars, uiVars>>

NextBackfill == \E args \in BackfillInputs : EvaluateBackfill(args)

SpecBackfill == InitNextRun /\ [][NextBackfill]_vars

\* The anchor the schedule has once the patch is applied.
C28_Before ==
  IF fnArgs.patch.hasSchedule THEN fnArgs.patch.anchorMs ELSE fnArgs.job.anchorMs

\* C28: after the backfill the anchor is a number >= 0; an anchor that was a
\* number is unchanged; a missing one is the update time if the patch has an
\* interval schedule, else createdAtMs clamped at 0, else (createdAtMs
\* missing) the update time.
C28_AnchorBackfilled ==
  fnArgs # NoArgs =>
    /\ fnOut.anchorMs # None
    /\ fnOut.anchorMs >= 0
    /\ C28_Before # None => fnOut.anchorMs = C28_Before
    /\ C28_Before = None =>
         fnOut.anchorMs =
           (IF fnArgs.patch.hasSchedule THEN fnArgs.nowMs
            ELSE IF fnArgs.job.createdAtMs = None THEN fnArgs.nowMs
            ELSE IF fnArgs.job.createdAtMs < 0 THEN 0
            ELSE fnArgs.job.createdAtMs)

\* A job with a negative createdAtMs and no anchor was updated with a patch
\* that has no schedule: the anchor is 0.
C28_Witness ==
  /\ fnArgs # NoArgs
  /\ ~fnArgs.patch.hasSchedule
  /\ fnArgs.job.anchorMs = None
  /\ fnArgs.job.createdAtMs < None
  /\ fnOut.anchorMs = 0

\* C29: the preflight of run for a job in the store answers already-running,
\* and starts no execution, if the job is marked running, whatever the mode;
\* for a job that is not marked, a forced run goes on to the execution, and a
\* run that is not forced does so exactly if nextRunAtMs is set and <= now,
\* answering not-due otherwise.
C29_Step ==
  \A c \in Slots :
    ( /\ SectionEnds(c)
      /\ calls[c].op = "run" /\ calls[c].pc = "preflight"
      /\ calls[c].id \in DOMAIN Cur )
    => LET job == Cur[calls[c].id]
           executes == calls'[c].pc = "exec"
           answers(reason) == calls'[c] = IdleCall /\ ret'.op = "run"
                              /\ ret'.res = reason
       IN /\ job.runningAtMs # None
               => (answers("already-running") /\ timeouts' = timeouts)
          /\ (job.runningAtMs = None /\ calls[c].mode = "force") => executes
          /\ (job.runningAtMs = None /\ calls[c].mode = "due")
               => IF job.nextRunAtMs # None /\ job.nextRunAtMs <= now
                    THEN executes
                    ELSE answers("not-due")

C29_ForceBypassesDueOnly == [][C29_Step]_vars

\* A forced run is executing a job whose next run is after now.
C29_Witness ==
  \E c \in Active :
    /\ calls[c].op = "run" /\ calls[c].mode = "force"
    /\ InExec(c)
    /\ calls[c].id \in DOMAIN store
    /\ store[calls[c].id].nextRunAtMs > now

\* -------------------------------------------------------- started service
\* start is the first call made; status and list are called once it has
\* returned; the wake fires and the clock advances.
StartFirst == ncalls = 0 /\ StartCall

Started == ncalls >= 1 /\ \A c \in Active : calls[c].op # "start"

StatusStarted == Started /\ StatusCall

ListStarted == Started /\ ListCall

NextStarted ==
  \/ StartFirst
  \/ StatusStarted
  \/ ListStarted
  \/ Tick
  \/ TimerFire
  \/ \E c \in Slots :
       \/ LockedBegin(c)
       \/ StartPhase1End(c)
       \/ OnTimerScanEnd(c)
       \/ StartPhase3End(c)
       \/ RunPreflightEnd(c)
       \/ \E status \in {"ok", "error"} : ExecDone(c, status)
       \/ Timeout(c)
       \/ RunResultEnd(c)
       \/ StatusEnd(c)

SpecStarted == InitSnapshot /\ [][NextStarted]_vars

\* C30: once start has returned and no call or wake handler is in progress,
\* the wake is at the minimum nextRunAtMs over the enabled jobs, and there is
\* no wake exactly when no enabled job has a next run; also after status or
\* list.
C30_WakeAtMinNextRun ==
  (Started /\ Active = {})
  => /\ timer.at = nextWakeAtMs(store)
     /\ timer.live <=> nextWakeAtMs(store) # None

\* ---------------------------------------------------------------- duration
\* C31: startedAt is the clock value preflight stores in runningAtMs, endedAt
\* is the clock value at which the executor or the timeout settled the race;
\* the result section of a job that still exists records
\* lastDurationMs = endedAt - startedAt, and the finished event carries that
\* value as durationMs.
C31_Started ==
  \A c \in Slots :
    (calls[c].pc = "preflight" /\ calls'[c].pc = "exec")
    => /\ calls'[c].startedAt = now
       /\ store'[calls[c].id].runningAtMs = now

C31_Ended ==
  \A c \in Slots :
    (calls[c].pc = "exec" /\ calls'[c].pc = "apply")
    => /\ calls'[c].endedAt = now
       /\ calls'[c].startedAt = calls[c].startedAt

C31_Applied ==
  \A c \in Slots :
    (SectionEnds(c) /\ calls[c].pc = "apply" /\ calls[c].id \in DOMAIN Cur)
    => /\ calls[c].id \in DOMAIN store'
            => store'[calls[c].id].lastDurationMs =
                 calls[c].endedAt - calls[c].startedAt
       /\ emitted' # <<>>
       /\ emitted'[1].action = "finished"
       /\ emitted'[1].jobId = calls[c].id
       /\ emitted'[1].durationMs = calls[c].endedAt - calls[c].startedAt

C31_DurationRecorded == [][C31_Started /\ C31_Ended /\ C31_Applied]_vars

\* The finished event of an execution that took one clock step has just been
\* emitted, one clock step after the execution settled.
C31_Witness ==
  /\ now = 2 * TickMs
  /\ emitted # <<>>
  /\ emitted[1].action = "finished"
  /\ emitted[1].runAtMs = 0
  /\ emitted[1].durationMs = TickMs
  /\ emitted[1].jobId \in DOMAIN store
  /\ store[emitted[1].jobId].lastDurationMs = TickMs

\* ------------------------------------------------------ repeated read
\* Once a status or list call has returned, only status and list are called
\* and nothing else takes a step: the clock stands still and the calls in
\* progress wait.
Reads == {"status", "list"}

ReadReturned == ret.op \in Reads

NextReadTwice ==
  \/ ~ReadReturned /\ NextRecover
  \/ ReadReturned /\ StatusCall
  \/ ReadReturned /\ ListCall
  \/ \E c \in Slots :
       \/ ReadReturned /\ calls[c].op \in Reads /\ LockedBegin(c)
       \/ ReadReturned /\ StatusEnd(c)

SpecReadTwice == InitRecover /\ [][NextReadTwice]_vars

\* What status returns.
statusResult(s) ==
  [enabled |-> cronEnabled,
   jobs |-> Cardinality(DOMAIN s),
   nextWakeAtMs |-> IF cronEnabled THEN nextWakeAtMs(s) ELSE None]

\* The jobs in stored order.
StoredJobs(s) == [i \in 1 .. Cardinality(DOMAIN s) |-> s[SortedSeq(DOMAIN s)[i]]]

\* C32: a status or list call whose body executes after another status or
\* list call has returned, the clock not having advanced and nothing else
\* having run in between, clears no marker, changes no nextRunAtMs, persists
\* nothing and returns what the first call returned.
C32_Step ==
  \A c \in Slots :
    (ReadReturned /\ SectionEnds(c) /\ calls[c].op \in Reads)
    => /\ loaded
       /\ store' = store
       /\ disk' = disk
       /\ statusResult(store') = statusResult(store)
       /\ \A incl \in BOOLEAN :
            listJobs(StoredJobs(store'), incl) = listJobs(StoredJobs(store), incl)

C32_SecondReadChangesNothing == [][C32_Step]_vars

\* A run is executing, its marker not yet persisted, and two reads have
\* returned since it was called.
C32_Witness ==
  /\ ncalls = 3
  /\ ReadReturned
  /\ disk # store
  /\ \E c \in Slots :
       /\ Active = {c}
       /\ calls[c].op = "run" /\ InExec(c)
       /\ store[calls[c].id].runningAtMs # None

\* ------------------------------------------------------------ busy flag
\* The callers are run calls only, on either job; the clock advances.
NextBusy ==
  \/ \E id \in JobIds, mode \in {"due", "force"} : RunCall(id, mode)
  \/ Tick
  \/ \E c \in Slots :
       \/ LockedBegin(c)
       \/ RunPreflightEnd(c)
       \/ \E status \in {"ok", "error"} : ExecDone(c, status)
       \/ Timeout(c)
       \/ RunResultEnd(c)

SpecBusy == InitSnapshot /\ [][NextBusy]_vars

\* C33: state.running is true while a run invocation is in its execution
\* phase, and false when no invocation is in progress, also when runs of
\* different jobs overlap.
C33_BusyWhileExecuting ==
  /\ (\E c \in Active : calls[c].op = "run" /\ InExec(c)) => running
  /\ Active = {} => ~running

\* ------------------------------------------------------- started, finished
\* Two calls are made, of run (forced), update (disable) and remove on one
\* job.  Every step of a call in progress is eventually taken: the lock is
\* handed on in order and the race of executor and timeout settles.
CallStep ==
  \E c \in Slots :
    \/ LockedBegin(c)
    \/ RunPreflightEnd(c)
    \/ \E status \in {"ok", "error"} : ExecDone(c, status)
    \/ Timeout(c)
    \/ RunResultEnd(c)
    \/ UpdateEnd(c)
    \/ RemoveEnd(c)

NextFinish ==
  \/ ncalls < 2 /\ \E id \in Targets : RunCall(id, "force")
  \/ ncalls < 2 /\ \E id \in Targets : UpdateCall(id, DisablePatch)
  \/ ncalls < 2 /\ \E id \in Targets : RemoveCall(id)
  \/ Tick
  \/ CallStep

SpecFinish == InitSnapshot /\ [][NextFinish]_vars /\ WF_vars(CallStep)

Times == {k * TickMs : k \in 0 .. MaxTicks}

Emitted(jobId, action, runAtMs) ==
  \E i \in 1 .. Len(emitted) :
    /\ emitted[i].jobId = jobId
    /\ emitted[i].action = action
    /\ emitted[i].runAtMs = runAtMs

\* C34: a started event is eventually followed by a finished event with the
\* same jobId and runAtMs, however the execution ends and whatever happens to
\* the job while it is in flight.
C34_StartedThenFinished ==
  \A j \in JobIds, t \in Times :
    Emitted(j, "started", t) ~> Emitted(j, "finished", t)

\* C35: whenever no locked section is executing, the persisted store equals
\* the store in memory.
C35_PersistedBeforeRelease ==
  (loaded /\ inside = {}) => disk = store

\* ------------------------------------------------------- stopped service
\* The state after start and then stop have returned, at clock 0: the store is
\* loaded and persisted, no wake is outstanding.  start is not called again;
\* the calls are counted from here.
InitStopped ==
  /\ now = 0
  /\ cronEnabled = TRUE
  /\ disk \in {Disk1, Disk2}
  /\ loaded = TRUE
  /\ store = disk
  /\ timer = NoTimer
  /\ wakes = 0
  /\ running = FALSE
  /\ calls = [c \in Slots |-> IdleCall]
  /\ ncalls = 0
  /\ ret = [NoRet EXCEPT !.op = "stop", !.res = "ok"]
  /\ queue = <<>>
  /\ inside = {}
  /\ nextId = Cardinality(DOMAIN disk) + 1
  /\ emitted = <<>>
  /\ timeouts = 0
  /\ fnArgs = NoArgs
  /\ fnOut = None
  /\ WebInit
  /\ UiInit

NextStopped ==
  \/ \E input \in AddInputs : AddCall(input)
  \/ \E id \in Targets, patch \in Patches : UpdateCall(id, patch)
  \/ \E id \in Targets : RemoveCall(id)
  \/ \E id \in Targets, mode \in {"due", "force"} : RunCall(id, mode)
  \/ Tick
  \/ TimerFire
  \/ \E c \in Slots :
       \/ LockedBegin(c)
       \/ OnTimerScanEnd(c)
       \/ RunPreflightEnd(c)
       \/ \E status \in {"ok", "error"} : ExecDone(c, status)
       \/ Timeout(c)
       \/ RunResultEnd(c)
       \/ AddEnd(c)
       \/ UpdateEnd(c)
       \/ RemoveEnd(c)

SpecStopped == InitStopped /\ [][NextStopped]_vars

\* C36: after stop has returned and until start is called again, no wake is
\* outstanding and the timer initiates no execution, whatever add, update,
\* remove and run calls are made.
C36_NoWakeAfterStop ==
  /\ ~timer.live
  /\ wakes = 0
  /\ \A c \in Active : calls[c].op # "timer"

\* ============================================================== web search
\* The token bucket and the circuit breaker of the web-search tool.  A call in
\* progress is a record: kind (a bare checkRateLimit call or a search), pc
\* (where it waits), at (the time its sleep ends), waited (the sleep it has
\* asked for so far) and attempt (the provider requests it has issued).  A
\* sleeping call resumes at any clock value at or after the end of its sleep.
WebTickMs == 500
MaxWebTicks == 5
MaxWebCalls == 12

RETRY_ATTEMPTS == 4

Min(a, b) == IF a <= b THEN a ELSE b

NewSearch(kind) ==
  [kind |-> kind, pc |-> "limit", at |-> wnow, waited |-> 0, attempt |-> 0]

One(s) == SetToBag({s})

\* The calls that have entered checkRateLimit so far.
Arrived ==
  Len(grants) + CopiesIn("limit", BagOfAll(LAMBDA s : s.pc, searches))

\* Variant: the tokens added are not capped at MAX_TOKENS.
Refill_NoCap(nowMs) ==
  LET timeSinceLastRefill == nowMs - lastRefillTime
      tokensToAdd == timeSinceLastRefill \div TOKEN_REFILL_INTERVAL_MS
  IN IF tokensToAdd > 0
       THEN [availableTokens |-> availableTokens + tokensToAdd,
             lastRefillTime |->
               nowMs - (timeSinceLastRefill % TOKEN_REFILL_INTERVAL_MS)]
       ELSE [availableTokens |-> availableTokens, lastRefillTime |-> lastRefillTime]

\* Variant: lastRefillTime is not moved when tokens are added.
Refill_KeepLast(nowMs) ==
  LET timeSinceLastRefill == nowMs - lastRefillTime
      tokensToAdd == timeSinceLastRefill \div TOKEN_REFILL_INTERVAL_MS
  IN IF tokensToAdd > 0
       THEN [availableTokens |-> Min(MAX_TOKENS, availableTokens + tokensToAdd),
             lastRefillTime |-> lastRefillTime]
       ELSE [availableTokens |-> availableTokens, lastRefillTime |-> lastRefillTime]

\* checkRateLimit, the refill: one token for every whole interval since
\* lastRefillTime, up to MAX_TOKENS; lastRefillTime moves to the last interval
\* boundary.
Refill(nowMs) ==
  LET timeSinceLastRefill == nowMs - lastRefillTime
      tokensToAdd == timeSinceLastRefill \div TOKEN_REFILL_INTERVAL_MS
  IN IF tokensToAdd > 0
       THEN [availableTokens |-> Min(MAX_TOKENS, availableTokens + tokensToAdd),
             lastRefillTime |->
               nowMs - (timeSinceLastRefill % TOKEN_REFILL_INTERVAL_MS)]
       ELSE [availableTokens |-> availableTokens, lastRefillTime |-> lastRefillTime]

\* Math.random() * (nextRefillMs * 0.05), in whole milliseconds: the least and
\* the greatest value.
Jitters(nextRefillMs) == {0, (nextRefillMs \div 20) - 1}

\* checkCircuitBreaker: how long the caller sleeps.
BreakerWaitMs(nowMs) ==
  IF circuitBreakerOpenUntil = 0 THEN 0
  ELSE IF circuitBreakerOpenUntil > nowMs THEN circuitBreakerOpenUntil - nowMs
  ELSE 0

\* A search whose checkRateLimit has returned: checkCircuitBreaker, then the
\* first provider request, or the sleep until the circuit may recover.
AfterLimit(s, rest) ==
  IF BreakerWaitMs(wnow) = 0
    THEN /\ searches' = rest (+) One([s EXCEPT !.pc = "request", !.attempt = 1])
         /\ requests' = 1
    ELSE /\ searches' = rest (+) One([s EXCEPT !.pc = "delayed",
                                               !.at = wnow + BreakerWaitMs(wnow)])
         /\ requests' = 0

\* One turn of the loop of checkRateLimit for call s, rest being the other
\* calls: refill; with a token, consume it and return the wait so far; without
\* one, sleep until the next refill and a little longer.
LimitTurn(s, rest) ==
  LET bucket == Refill(wnow)
      timeSinceLastRefill == wnow - lastRefillTime
      nextRefillMs ==
        TOKEN_REFILL_INTERVAL_MS - (timeSinceLastRefill % TOKEN_REFILL_INTERVAL_MS)
  IN /\ lastRefillTime' = bucket.lastRefillTime
     /\ IF bucket.availableTokens > 0
          THEN /\ availableTokens' = bucket.availableTokens - 1
               /\ grants' = Append(grants, wnow)
               /\ waitedMs' = s.waited
               /\ IF s.kind = "check"
                    THEN searches' = rest /\ requests' = 0
                    ELSE AfterLimit(s, rest)
          ELSE /\ availableTokens' = bucket.availableTokens
               /\ \E jitterMs \in Jitters(nextRefillMs) :
                    searches' = rest (+) One(
                      [s EXCEPT !.at = wnow + nextRefillMs + jitterMs,
                                !.waited = s.waited + nextRefillMs + jitterMs])
               /\ requests' = 0
               /\ UNCHANGED <<grants, waitedMs>>

\* checkRateLimit() is called on its own.
CheckCall ==
  /\ Arrived < MaxWebCalls
  /\ LimitTurn(NewSearch("check"), searches)
  /\ UNCHANGED <<wnow, circuitBreakerFailures, circuitBreakerOpenUntil>>
  /\ UNCHANGED <<cronVars, fnArgs, fnOut, uiVars>>

\* A Brave or Perplexity search arrives.
SearchCall ==
  /\ Arrived < MaxWebCalls
  /\ LimitTurn(NewSearch("search"), searches)
  /\ UNCHANGED <<wnow, circuitBreakerFailures, circuitBreakerOpenUntil>>
  /\ UNCHANGED <<cronVars, fnArgs, fnOut, uiVars>>

\* The sleep of a call waiting for a token is over.
LimitResume(s) ==
  /\ BagIn(s, searches)
  /\ s.pc = "limit"
  /\ s.at <= wnow
  /\ LimitTurn(s, searches (-) One(s))
  /\ UNCHANGED <<wnow, circuitBreakerFailures, circuitBreakerOpenUntil>>
  /\ UNCHANGED <<cronVars, fnArgs, fnOut, uiVars>>

WebTick(stepMs, maxMs) ==
  /\ wnow + stepMs <= maxMs
  /\ wnow' = wnow + stepMs
  /\ requests' = 0
  /\ UNCHANGED <<availableTokens, lastRefillTime, circuitBreakerFailures,
                 circuitBreakerOpenUntil, searches, grants, waitedMs>>
  /\ UNCHANGED <<cronVars, fnArgs, fnOut, uiVars>>

\* ------------------------------------------------------------ token bucket
\* checkRateLimit is called any number of times, at any clock values.
NextBucket ==
  \/ CheckCall
  \/ \E s \in BagToSet(searches) : LimitResume(s)
  \/ WebTick(WebTickMs, MaxWebTicks * WebTickMs)

SpecBucket == InitNextRun /\ [][NextBucket]_vars

\* The least N with N refill intervals covering a span of time.
IntervalsCovering(spanMs) ==
  (spanMs + TOKEN_REFILL_INTERVAL_MS - 1) \div TOKEN_REFILL_INTERVAL_MS

\* Any run of consecutive returns has at most MAX_TOKENS + N members, N
\* intervals covering the time from its first to its last.
C37_Window ==
  \A i, j \in 1 .. Len(grants) :
    i <= j => j - i + 1 <= MAX_TOKENS + IntervalsCovering(grants[j] - grants[i])

\* Every return took one token: the tokens taken and the tokens left are the
\* initial tokens and at most one for every interval up to lastRefillTime.
C37_OneTokenEach ==
  Len(grants) + availableTokens
    <= MAX_TOKENS + lastRefillTime \div TOKEN_REFILL_INTERVAL_MS

C40_BucketInRange ==
  /\ availableTokens \in 0 .. MAX_TOKENS
  /\ lastRefillTime \in 0 .. wnow

\* The bucket is empty, a call waits for a token, and lastRefillTime stands at
\* an interval boundary before the current time.
C40_Witness ==
  /\ availableTokens = 0
  /\ searches # EmptyBag
  /\ lastRefillTime > 0
  /\ lastRefillTime < wnow

\* --------------------------------------------------------- circuit breaker
CircuitTickMs == CIRCUIT_BREAKER_TIMEOUT_MS \div 2
MaxCircuitTicks == 2
MaxSearches == 7

\* recordCircuitBreakerFailure
recordCircuitBreakerFailure ==
  /\ circuitBreakerFailures' = circuitBreakerFailures + 1
  /\ circuitBreakerOpenUntil' =
       IF circuitBreakerFailures + 1 >= CIRCUIT_BREAKER_FAILURE_THRESHOLD
         THEN wnow + CIRCUIT_BREAKER_TIMEOUT_MS
         ELSE circuitBreakerOpenUntil

\* recordCircuitBreakerSuccess
recordCircuitBreakerSuccess ==
  /\ circuitBreakerFailures' = 0
  /\ circuitBreakerOpenUntil' = 0

\* The sleep of checkCircuitBreaker is over: the search goes on to its first
\* provider request.
BreakerWake(s) ==
  /\ BagIn(s, searches)
  /\ s.pc = "delayed"
  /\ s.at <= wnow
  /\ searches' = (searches (-) One(s)) (+) One([s EXCEPT !.pc = "request", !.attempt = 1])
  /\ requests' = 1
  /\ UNCHANGED <<wnow, availableTokens, lastRefillTime, circuitBreakerFailures,
                 circuitBreakerOpenUntil, grants, waitedMs>>
  /\ UNCHANGED <<cronVars, fnArgs, fnOut, uiVars>>

\* The provider answers a request: ok ends the search with a success
\* recorded; 429 is retried while attempts are left and otherwise ends the
\* search with a failure recorded; any other error ends it with nothing
\* recorded.
Respond(s, outcome) ==
  /\ BagIn(s, searches)
  /\ s.pc = "request"
  /\ CASE outcome = "ok" ->
            /\ recordCircuitBreakerSuccess
            /\ searches' = searches (-) One(s)
       [] outcome = "429" /\ s.attempt < RETRY_ATTEMPTS ->
            /\ searches' = (searches (-) One(s)) (+) One([s EXCEPT !.pc = "backoff"])
            /\ UNCHANGED <<circuitBreakerFailures, circuitBreakerOpenUntil>>
       [] outcome = "429" /\ s.attempt >= RETRY_ATTEMPTS ->
            /\ recordCircuitBreakerFailure
            /\ searches' = searches (-) One(s)
       [] OTHER ->
            /\ searches' = searches (-) One(s)
            /\ UNCHANGED <<circuitBreakerFailures, circuitBreakerOpenUntil>>
  /\ requests' = 0
  /\ UNCHANGED <<wnow, availableTokens, lastRefillTime, grants, waitedMs>>
  /\ UNCHANGED <<cronVars, fnArgs, fnOut, uiVars>>

\* The retry delay is over: the request is issued again.
Retry(s) ==
  /\ BagIn(s, searches)
  /\ s.pc = "backoff"
  /\ searches' = (searches (-) One(s))
                   (+) One([s EXCEPT !.pc = "request", !.attempt = s.attempt + 1])
  /\ requests' = 1
  /\ UNCHANGED <<wnow, availableTokens, lastRefillTime, circuitBreakerFailures,
                 circuitBreakerOpenUntil, grants, waitedMs>>
  /\ UNCHANGED <<cronVars, fnArgs, fnOut, uiVars>>

\* MaxSearches searches arrive: all but the last at clock 0, the last at any
\* clock value.  MaxSearches is below MAX_TOKENS, so the limiter grants every
\* search on arrival and none waits for a refill.
ArriveCircuit ==
  /\ Arrived < MaxSearches
  /\ Arrived < MaxSearches - 1 => wnow = 0
  /\ SearchCall

NextCircuit ==
  \/ ArriveCircuit
  \/ WebTick(CircuitTickMs, MaxCircuitTicks * CircuitTickMs)
  \/ \E s \in BagToSet(searches) : BreakerWake(s)
  \/ \E s \in BagToSet(searches) : Respond(s, "ok")
  \/ \E s \in BagToSet(searches) : Respond(s, "429")
  \/ \E s \in BagToSet(searches) : Respond(s, "error")
  \/ \E s \in BagToSet(searches) : Retry(s)

SpecCircuit == InitNextRun /\ [][NextCircuit]_vars

\* C38: no search issues a provider request while the circuit is open, that
\* is before circuitBreakerOpenUntil has passed.
C38_NoRequestWhileOpen ==
  requests > 0 => ~(circuitBreakerOpenUntil > wnow)

\* ------------------------------------------------------------- UI pollers
\* The number of interval timers the window hands out.
MaxHandles == 5

Tabs == {"chat", "logs", "debug", "mission-control"}

\* The host field that holds the poller's interval id.
PollField(p) ==
  CASE p = "nodes" -> "nodesPollInterval"
    [] p = "logs" -> "logsPollInterval"
    [] p = "debug" -> "debugPollInterval"
    [] p = "mission-control" -> "missionControlPollInterval"

\* The loader the poller calls.
Loader(p) ==
  CASE p = "nodes" -> "loadNodes"
    [] p = "logs" -> "loadLogs"
    [] p = "debug" -> "loadDebug"
    [] p = "mission-control" -> "loadMissionControl"

\* The interval timers that belong to poller p.
TimersOf(set, p) == {i \in set : i.poller = p}

\* window.setInterval: a new timer under the next id.
setInterval(p) == [id |-> nextHandle, poller |-> p]

\* start*Polling without the test of the field: a start on an active poller
\* creates a second timer and overwrites the field.
startPolling_NoGuard(p) ==
  /\ nextHandle <= MaxHandles
  /\ called' = IF p = "mission-control" THEN <<Loader(p)>> ELSE <<>>
  /\ intervals' = intervals \cup {setInterval(p)}
  /\ host' = [host EXCEPT ![PollField(p)] = nextHandle]
  /\ nextHandle' = nextHandle + 1
  /\ uiOp' = [op |-> "start", poller |-> p, active |-> host[PollField(p)] # None]
  /\ UNCHANGED <<cronVars, fnArgs, fnOut, webVars>>

\* startNodesPolling, startLogsPolling, startDebugPolling,
\* startMissionControlPolling: nothing on an active poller; otherwise a new
\* interval timer whose id is stored in the field.  The mission-control
\* poller loads once at once.
startPolling(p) ==
  /\ uiOp' = [op |-> "start", poller |-> p, active |-> host[PollField(p)] # None]
  /\ IF host[PollField(p)] # None
       THEN /\ called' = <<>>
            /\ UNCHANGED <<host, intervals, nextHandle>>
       ELSE /\ nextHandle <= MaxHandles
            /\ called' = IF p = "mission-control" THEN <<Loader(p)>> ELSE <<>>
            /\ intervals' = intervals \cup {setInterval(p)}
            /\ host' = [host EXCEPT ![PollField(p)] = nextHandle]
            /\ nextHandle' = nextHandle + 1
  /\ UNCHANGED <<cronVars, fnArgs, fnOut, webVars>>

\* stopNodesPolling, stopLogsPolling, stopDebugPolling,
\* stopMissionControlPolling: nothing on an inactive poller; otherwise
\* clearInterval of the stored id and the field set to null.
stopPolling(p) ==
  /\ uiOp' = [op |-> "stop", poller |-> p, active |-> host[PollField(p)] # None]
  /\ called' = <<>>
  /\ IF host[PollField(p)] = None
       THEN UNCHANGED <<host, intervals>>
       ELSE /\ intervals' = {i \in intervals : i.id # host[PollField(p)]}
            /\ host' = [host EXCEPT ![PollField(p)] = None]
  /\ UNCHANGED nextHandle
  /\ UNCHANGED <<cronVars, fnArgs, fnOut, webVars>>

\* An interval timer fires: the nodes poller loads always, the others only
\* while their tab is shown.
IntervalFire(i) ==
  /\ i \in intervals
  /\ called' = IF i.poller = "nodes" \/ host.tab = i.poller
                 THEN <<Loader(i.poller)>> ELSE <<>>
  /\ uiOp' = [op |-> "fire", poller |-> i.poller, active |-> TRUE]
  /\ UNCHANGED <<host, intervals, nextHandle>>
  /\ UNCHANGED <<cronVars, fnArgs, fnOut, webVars>>

\* The user shows another tab.
SetTab(tab) ==
  /\ host.tab # tab
  /\ host' = [host EXCEPT !.tab = tab]
  /\ called' = <<>>
  /\ uiOp' = [op |-> "tab", poller |-> tab, active |-> FALSE]
  /\ UNCHANGED <<intervals, nextHandle>>
  /\ UNCHANGED <<cronVars, fnArgs, fnOut, webVars>>

NextPolling ==
  \/ \E p \in Pollers : startPolling(p)
  \/ \E p \in Pollers : stopPolling(p)
  \/ \E i \in intervals : IntervalFire(i)
  \/ \E tab \in Tabs : SetTab(tab)

SpecPolling == InitNextRun /\ [][NextPolling]_vars

\* The poller has at most one interval timer, and its field is non-null
\* exactly when the timer exists (and then holds the timer's id).
OneTimer(p) ==
  /\ Cardinality(TimersOf(intervals, p)) <= 1
  /\ host[PollField(p)] # None <=> TimersOf(intervals, p) # {}
  /\ \A i \in TimersOf(intervals, p) : i.id = host[PollField(p)]

\* C39: for each of the four UI pollers and any sequence of start and stop
\* calls, at most one interval timer exists and the host's field is non-null
\* exactly when that timer exists: a start on an active poller creates no
\* second timer, a stop clears the timer and sets the field to null, and a
\* stop on an inactive poller changes nothing.
C39_Step ==
  /\ \A p \in Pollers : OneTimer(p)'
  /\ \A p \in Pollers :
       /\ (startPolling(p) /\ host[PollField(p)] # None)
            => UNCHANGED <<host, intervals, nextHandle>>
       /\ stopPolling(p)
            => host'[PollField(p)] = None /\ TimersOf(intervals', p) = {}
       /\ (stopPolling(p) /\ host[PollField(p)] = None)
            => UNCHANGED <<host, intervals, nextHandle>>

C39_OneTimerPerPoller == [][C39_Step]_vars

\* The nodes poller is active under its second timer after a start was
\* called on it while it was active, with a stopped poller beside it.
C39_Witness ==
  /\ uiOp.op = "start" /\ uiOp.poller = "nodes" /\ uiOp.active
  /\ host.nodesPollInterval > 1
  /\ host.logsPollInterval = None
  /\ nextHandle > 3
  /\ \A p \in Pollers : OneTimer(p)

====
